---- MODULE Spec2Model ----
(***************************************************************************)
(* A model of matrix-claude-bot: the agent loop (Bot.getClaudeResponse),   *)
(* the conversation store, the tool registry and the sandboxed path        *)
(* resolver of the filesystem tools.                                       *)
(***************************************************************************)
EXTENDS Integers, Sequences, FiniteSets, TLC

(***************************************************************************)
(* Bounds and input alphabets                                              *)
(***************************************************************************)

\* Largest configured tools.max_iterations the model draws.
MaxCap == 2

\* time.Second units; the default of claude.go line 103.
DefaultToolTimeout == 30

\* Goroutines running handleMessage -> getClaudeResponse, and thread ids.
Runs == {"r1", "r2"}
Threads == {"t1", "t2"}

\* Configured values: Config.MaxToolIterations and Config.ToolTimeout
\* (seconds; 0 is "unset").
CapValues == (-1)..MaxCap
TimeoutValues == {0, 5}

\* How long one tool execution takes, in seconds.
Durations == {1, 10, 31}

UserTexts == {"hello"}

\* The text a response carries in a text block at position k.
TextAt(k) == IF k = 1 THEN "a" ELSE "b"

\* Tool names the model may ask for; only LocalNames can be registered
\* locally, "web_search" is a server-side tool of the API.
LocalNames == {"echo"}
ToolNames == LocalNames \cup {"web_search"}

\* A registered Tool either passes its context on to a blocking call
\* (mcpTool.Execute) or never looks at it (the fs_* tools, fakeTool).
ToolKinds == {"honorsCtx", "ignoresCtx"}

NoErr == "nil"

(***************************************************************************)
(* Messages                                                                *)
(***************************************************************************)

TextBlock(s) == [type |-> "text", text |-> s]

ToolUseBlock(id, name) == [type |-> "tool_use", id |-> id, name |-> name]

NewToolResultBlock(id, result, isError) ==
    [type |-> "tool_result", tool_use_id |-> id, content |-> result,
     is_error |-> isError]

NewUserMessage(blocks) == [role |-> "user", content |-> blocks]

\* Message.ToParam: the response as an assistant entry, blocks unchanged.
ToParam(resp) == [role |-> "assistant", content |-> resp.content]

\* The blocks a response may hold at position k: a text, or a tool-use
\* request whose invocation id is its position.
BlocksAt(k) ==
    {TextBlock(TextAt(k))} \cup {ToolUseBlock(k, n) : n \in ToolNames}

\* Response contents: zero, one or two blocks.
Contents ==
    {<<>>} \cup {<<b>> : b \in BlocksAt(1)}
           \cup {<<b, c>> : b \in BlocksAt(1), c \in BlocksAt(2)}

StopReasons == {"end_turn", "tool_use"}

Responses == [content : Contents, stop : StopReasons]

NoResp == [content |-> <<>>, stop |-> "none"]

(***************************************************************************)
(* State                                                                   *)
(***************************************************************************)

VARIABLES
    cfg,          \* Bot.config: MaxToolIterations, ToolTimeout
    localTools,   \* Registry.localTools: name -> kind of the Tool
    serverTools,  \* Registry.serverTools: number of declarations
    convs,        \* ConversationStore.convs: thread id -> messages
    runs,         \* per goroutine: the locals of getClaudeResponse
    obs,          \* per goroutine: what a test harness would count
    sandboxDir,   \* Config.SandboxDir, absolute
    fs,           \* the filesystem: absolute path -> node
    fsOp,         \* the last filesystem tool call and what it did
    heap,         \* backing arrays of the slices of the store and its callers
    store,        \* ConversationStore.convs as slices: thread id -> slice
    smu,          \* ConversationStore.mu
    calls,        \* per goroutine: its call of Get or Append and what it holds
    slog,         \* what has been appended and returned so far
    rmu,          \* ToolRegistry.mu
    rcalls,       \* per goroutine: its call of a registry method
    rlog,         \* the writes to the registry in the order they took effect,
                  \* and the names each goroutine was told are registered
    mcp,          \* MCPManager, its servers and its call of Connect or Close
    ctx,          \* the context the message handlers were given
    hm            \* per goroutine: its call of handleMessage; the replies sent

botVars == <<cfg, localTools, serverTools, convs, runs, obs>>

fsVars == <<sandboxDir, fs, fsOp>>

storeVars == <<heap, store, smu, calls, slog>>

regVars == <<rmu, rcalls, rlog>>

botEnv == <<mcp, hm>>

vars ==
    <<cfg, localTools, serverTools, convs, runs, obs, sandboxDir, fs, fsOp,
      heap, store, smu, calls, slog, rmu, rcalls, rlog, mcp, ctx, hm>>

\* What the steps of the loop, of a filesystem tool, of the store and of
\* the registry leave alone.
outsideLoop == <<fsVars, storeVars, regVars, botEnv>>

outsideFs == <<botVars, storeVars, regVars, botEnv, ctx>>

outsideStore == <<botVars, fsVars, regVars, botEnv, ctx>>

outsideReg == <<cfg, convs, runs, obs, fsVars, storeVars, botEnv, ctx>>

(***************************************************************************)
(* ConversationStore                                                       *)
(***************************************************************************)

StoreGet(c, t) == c[t]

StoreAppend_allThreads(c, t, msgs) == [u \in DOMAIN c |-> c[u] \o msgs]

StoreAppend(c, t, msgs) == [c EXCEPT ![t] = @ \o msgs]

(***************************************************************************)
(* Tool registry                                                           *)
(***************************************************************************)

HasLocalTool(lt, name) == name \in DOMAIN lt

IsEmpty_localOnly(lt, st) == Cardinality(DOMAIN lt) = 0

IsEmpty(lt, st) == Cardinality(DOMAIN lt) = 0 /\ st = 0

\* What Tool.Execute hands back: the tool's own outcome, unless the tool
\* watches its context and the deadline passes first.
RawOutcomes ==
    { [result |-> "echoed", isError |-> FALSE, err |-> NoErr],
      [result |-> "no such file", isError |-> TRUE, err |-> NoErr],
      [result |-> "", isError |-> FALSE, err |-> "tool crashed"] }

ToolExecute(kind, raw, dur, timeout) ==
    IF kind = "honorsCtx" /\ dur > timeout
    THEN [result |-> "", isError |-> FALSE,
          err |-> "MCP tool call failed: context deadline exceeded"]
    ELSE raw

\* Line 174 of the registry
UnknownTool(name) ==
    [result |-> "", isError |-> FALSE, err |-> "unknown tool: " \o name]

RegistryExecute(lt, name, raw, dur, timeout) ==
    IF name \notin DOMAIN lt
    THEN UnknownTool(name)
    ELSE ToolExecute(lt[name], raw, dur, timeout)

Register_onlyNewest(lt, name, kind) == [n \in {name} |-> kind]

Register_keepFirst(lt, name, kind) ==
    IF name \in DOMAIN lt THEN lt
    ELSE [n \in DOMAIN lt \cup {name} |-> IF n = name THEN kind ELSE lt[n]]

\* ToolRegistry.Register, line 143
Register(lt, name, kind) ==
    [n \in DOMAIN lt \cup {name} |-> IF n = name THEN kind ELSE lt[n]]

\* ToolRegistry.AddServerTool, line 151
AddServerTool(st) == st + 1

\* The orders a range over the map of local tools can take.
MapOrders(lt) ==
    {o \in [1..Cardinality(DOMAIN lt) -> DOMAIN lt] :
        \A i, j \in DOMAIN o : o[i] = o[j] => i = j}

\* ToolRegistry.Definitions, lines 159-164: the local definitions in map
\* order, then the server declarations.
Definitions(lt, st, order) ==
    [k \in 1..Len(order) |-> [of |-> "tool", name |-> order[k]]]
    \o [k \in 1..st |-> [of |-> "web_search", name |-> "web_search"]]

\* session.CallTool under a context that is already cancelled, or is
\* cancelled while the call blocks.
ContextCanceled ==
    [result |-> "", isError |-> FALSE,
     err |-> "MCP tool call failed: context canceled"]

\* Does the Tool stop at the cancellation of its context?  The fs_* tools
\* never read theirs.
StopsAtCancel(lt, name, done) ==
    name \in DOMAIN lt /\ lt[name] = "honorsCtx" /\ done

\* Execute under a context derived from the caller's: done says whether
\* the caller's context is cancelled by the time the call returns.
ExecuteUnder(lt, name, raw, dur, timeout, done) ==
    IF StopsAtCancel(lt, name, done)
    THEN ContextCanceled
    ELSE RegistryExecute(lt, name, raw, dur, timeout)

(***************************************************************************)
(* getClaudeResponse: pure parts                                           *)
(***************************************************************************)

RECURSIVE JoinLines(_)
JoinLines(parts) ==
    IF parts = <<>> THEN ""
    ELSE IF Len(parts) = 1 THEN parts[1]
    ELSE parts[1] \o "\n" \o JoinLines(Tail(parts))

\* strings.HasPrefix, on sequences of characters.
HasPrefix(s, prefix) ==
    Len(prefix) <= Len(s) /\ SubSeq(s, 1, Len(prefix)) = prefix

\* The names local tools go by, in the byte order sort.Strings puts them in,
\* and their characters.
SortedToolNames ==
    <<"a_b_b_c", "a_b_c", "a_c", "echo", "fs", "fs_list", "fs_read",
      "fs_write", "fsx", "zip">>

ToolNameChars(n) ==
    CASE n = "a_b_b_c" -> <<"a", "_", "b", "_", "b", "_", "c">>
      [] n = "a_b_c" -> <<"a", "_", "b", "_", "c">>
      [] n = "a_c" -> <<"a", "_", "c">>
      [] n = "echo" -> <<"e", "c", "h", "o">>
      [] n = "fs" -> <<"f", "s">>
      [] n = "fs_list" -> <<"f", "s", "_", "l", "i", "s", "t">>
      [] n = "fs_read" -> <<"f", "s", "_", "r", "e", "a", "d">>
      [] n = "fs_write" -> <<"f", "s", "_", "w", "r", "i", "t", "e">>
      [] n = "fsx" -> <<"f", "s", "x">>
      [] n = "zip" -> <<"z", "i", "p">>

\* ToolRegistry.LocalToolNames, lines 196-201: the keys of the map, sorted.
LocalToolNames(lt) == SelectSeq(SortedToolNames, LAMBDA n : n \in DOMAIN lt)

\* ToolRegistry.HasServerTools, line 208
HasServerTools(st) == st > 0

WebSearchLine ==
    "- Web search: you can search the web for current information"

FilesystemLine ==
    "- Filesystem: you can read, write, and list files in a sandboxed directory"

CapabilitiesHeader == "\n\nYou have access to the following tools:\n"

\* Lines 64-71: the line a local tool name adds.
PartOf(name) ==
    IF HasPrefix(ToolNameChars(name), <<"f", "s", "_">>)
    THEN FilesystemLine
    ELSE "- " \o name

Unique_keepAll(parts) == parts

\* Lines 77-85: the first occurrence of every line, in order.
RECURSIVE Unique(_)
Unique(parts) ==
    IF parts = <<>> THEN <<>>
    ELSE LET init == Unique(SubSeq(parts, 1, Len(parts) - 1))
             last == parts[Len(parts)]
         IN  IF \E k \in 1..Len(init) : init[k] = last
             THEN init
             ELSE Append(init, last)

\* Bot.toolCapabilitiesPrompt
toolCapabilitiesPrompt(lt, st) ==
    LET localNames == LocalToolNames(lt)
        parts == (IF HasServerTools(st) THEN <<WebSearchLine>> ELSE <<>>)
                 \o [k \in 1..Len(localNames) |-> PartOf(localNames[k])]
    IN  IF IsEmpty(lt, st) THEN ""
        ELSE IF Len(parts) = 0 THEN ""
        ELSE CapabilitiesHeader \o JoinLines(Unique(parts))

\* No System field in the request.
NoSystem == [has |-> FALSE, text |-> ""]

\* Lines 115-120: the System of the request.
SystemParam(configured, lt, st) ==
    IF configured \o toolCapabilitiesPrompt(lt, st) # ""
    THEN [has |-> TRUE, text |-> configured \o toolCapabilitiesPrompt(lt, st)]
    ELSE NoSystem

extractText_first(content) ==
    LET texts == SelectSeq(content, LAMBDA b : b.type = "text")
    IN  IF texts = <<>> THEN "" ELSE texts[1].text

extractText(content) ==
    LET texts == SelectSeq(content, LAMBDA b : b.type = "text")
    IN  JoinLines([k \in 1..Len(texts) |-> texts[k].text])

EffectiveMaxIterations(n) == IF n <= 0 THEN 1 ELSE n

EffectiveToolTimeout(d) == IF d <= 0 THEN DefaultToolTimeout ELSE d

LoopContinues_inclusive(i, maxIterations) == i <= maxIterations

LoopContinues_early(i, maxIterations) == i + 1 < maxIterations

LoopContinues(i, maxIterations) == i < maxIterations

MaxIterationsText == "reached maximum tool use iterations"

InternalErrorText == "internal error executing tool"

ApiErrorText == "claude API call failed"

\* Lines 170-176: an error from Execute becomes the generic error result.
ToolResultOf(block, out) ==
    IF out.err # NoErr
    THEN NewToolResultBlock(block.id, InternalErrorText, TRUE)
    ELSE NewToolResultBlock(block.id, out.result, out.isError)

IsExecutable_anyToolUse(lt, block) == block.type = "tool_use"

\* Lines 159-164: which blocks of a response the loop executes.
IsExecutable(lt, block) ==
    block.type = "tool_use" /\ HasLocalTool(lt, block.name)

\* No tool execution in flight.
NoExec == [name |-> "none"]

IdleRun ==
    [pc |-> "idle", thread |-> "t1", i |-> 0, maxIterations |-> 0,
     toolTimeout |-> 0, hasTools |-> FALSE, params |-> <<>>,
     reqTools |-> <<>>, system |-> NoSystem,
     resp |-> NoResp, blk |-> 0, exec |-> NoExec, toolResults |-> <<>>,
     retText |-> "", retErr |-> NoErr]

\* after: the runs that had returned when this one started; emptyAtStart:
\* whether the registry held nothing then.
IdleObs ==
    [calls |-> 0, execs |-> 0, base |-> <<>>, failed |-> FALSE,
     allToolUse |-> TRUE, after |-> {}, emptyAtStart |-> TRUE]

\* The context of the sync loop, not cancelled; lateRuns counts the tool
\* bodies that started after the cancellation and still ran to their end,
\* seen is what each run was doing when the cancellation came.
LiveContext ==
    [done |-> FALSE, lateRuns |-> 0, seen |-> [r \in Runs |-> "none"]]

\* Connect has not returned yet.
NotReturned == [isNil |-> TRUE, prefix |-> "pending", parts |-> <<>>]

NoBridgeCall == [name |-> "", found |-> FALSE, session |-> 0, toolName |-> ""]

\* NewMCPManager, and the servers the configuration lists.
NewMCPManager(servers) ==
    [servers |-> servers, pc |-> "new", i |-> 0, k |-> 0, j |-> 0,
     connections |-> <<>>, errs |-> <<>>, bridges |-> <<>>,
     ret |-> NotReturned, attempts |-> <<>>, discovered |-> <<>>,
     closes |-> <<>>, closeErrs |-> <<>>, called |-> NoBridgeCall]

\* No message is being handled and no reply has been sent.
NoEvent ==
    [id |-> "none", sender |-> "", ts |-> 0, parsed |-> FALSE,
     mentions |-> FALSE, body |-> <<>>, threadRoot |-> "none"]

IdleHandlers ==
    [sent |-> <<>>, on |-> [r \in Runs |-> [pc |-> "idle", evt |-> NoEvent]]]

(***************************************************************************)
(* getClaudeResponse: steps                                                *)
(***************************************************************************)

MayStart_oneRunPerThread(rs, r, t) ==
    \A q \in DOMAIN rs : q # r /\ rs[q].thread = t => rs[q].pc \in {"idle", "done"}

\* Lines 229-231: every message event gets a goroutine of its own; nothing
\* makes a run wait for another run of its thread.
MayStart(rs, r, t) == TRUE

\* Lines 93-106: append the user message, read the configuration.
Start(r, t, userText) ==
    /\ runs[r].pc = "idle"
    /\ MayStart(runs, r, t)
    /\ convs' = StoreAppend(convs, t, <<NewUserMessage(<<TextBlock(userText)>>)>>)
    /\ runs' = [runs EXCEPT ![r] =
                  [IdleRun EXCEPT
                     !.pc = "loop",
                     !.thread = t,
                     !.maxIterations = EffectiveMaxIterations(cfg.MaxToolIterations),
                     !.toolTimeout = EffectiveToolTimeout(cfg.ToolTimeout),
                     !.hasTools = ~IsEmpty(localTools, serverTools)]]
    /\ obs' = [obs EXCEPT ![r] =
                 [IdleObs EXCEPT
                    !.base = convs[t],
                    !.after = {q \in Runs : runs[q].pc = "done"},
                    !.emptyAtStart = (localTools = <<>> /\ serverTools = 0)]]
    /\ UNCHANGED <<cfg, localTools, serverTools>>
    /\ UNCHANGED <<ctx, outsideLoop>>

\* No Tools field in the request.
NoTools == <<>>

RequestTools_nonEmptyNow(hasTools, lt, st, order) ==
    IF ~IsEmpty(lt, st) THEN Definitions(lt, st, order) ELSE NoTools

\* Lines 122-124: the Tools of the request.
RequestTools(hasTools, lt, st, order) ==
    IF hasTools THEN Definitions(lt, st, order) ELSE NoTools

\* Lines 108-124: the loop test, then the request with the stored history,
\* the system prompt and the tool definitions.
BuildRequest(r) ==
    /\ runs[r].pc = "loop"
    /\ LoopContinues(runs[r].i, runs[r].maxIterations)
    /\ \E order \in MapOrders(localTools) :
          runs' = [runs EXCEPT
                     ![r].pc = "model",
                     ![r].params = StoreGet(convs, runs[r].thread),
                     ![r].system = SystemParam(cfg.SystemPrompt, localTools,
                                               serverTools),
                     ![r].reqTools = RequestTools(runs[r].hasTools, localTools,
                                                  serverTools, order)]
    /\ UNCHANGED <<cfg, localTools, serverTools, convs, obs>>
    /\ UNCHANGED <<ctx, outsideLoop>>

ExhaustedReturn_error ==
    [text |-> "", err |-> "reached maximum tool use iterations"]

\* Line 186: what the run returns when the loop ran out.
ExhaustedReturn == [text |-> MaxIterationsText, err |-> NoErr]

\* Lines 108, 186: the loop test fails.
ReturnExhausted(r) ==
    /\ runs[r].pc = "loop"
    /\ ~LoopContinues(runs[r].i, runs[r].maxIterations)
    /\ runs' = [runs EXCEPT ![r].pc = "done",
                            ![r].retText = ExhaustedReturn.text,
                            ![r].retErr = ExhaustedReturn.err]
    /\ UNCHANGED <<cfg, localTools, serverTools, convs, obs>>
    /\ UNCHANGED <<ctx, outsideLoop>>

HistoryAfterFailedCall_rollback(c, t) ==
    [c EXCEPT ![t] = SubSeq(@, 1, Len(@) - 1)]

\* Lines 141-143: the store after a failed call; the return comes before
\* the Append of line 145 and undoes nothing.
HistoryAfterFailedCall(c, t) == c

\* Lines 140-143: NewMessage returns an error.
ModelCallFails(r) ==
    /\ runs[r].pc = "model"
    /\ runs' = [runs EXCEPT ![r].pc = "done",
                            ![r].retText = "",
                            ![r].retErr = ApiErrorText]
    /\ convs' = HistoryAfterFailedCall(convs, runs[r].thread)
    /\ obs' = [obs EXCEPT ![r].calls = @ + 1, ![r].failed = TRUE]
    /\ UNCHANGED <<cfg, localTools, serverTools>>
    /\ UNCHANGED <<ctx, outsideLoop>>

\* Lines 147-155: does the run return right after appending the response?
ReturnsAfterResponse(resp, hasTools) ==
    resp.stop # "tool_use" \/ ~hasTools

\* Lines 140-157: NewMessage returns a response; a call whose context is
\* cancelled returns the context's error instead.
ModelCallReturns(r, resp) ==
    /\ runs[r].pc = "model"
    /\ ~ctx.done
    /\ convs' = StoreAppend(convs, runs[r].thread, <<ToParam(resp)>>)
    /\ obs' = [obs EXCEPT
                 ![r].calls = @ + 1,
                 ![r].allToolUse =
                     /\ @
                     /\ resp.stop = "tool_use"
                     /\ \E k \in 1..Len(resp.content) :
                           /\ resp.content[k].type = "tool_use"
                           /\ resp.content[k].name \in DOMAIN localTools]
    /\ IF ReturnsAfterResponse(resp, runs[r].hasTools)
       THEN runs' = [runs EXCEPT ![r].pc = "done",
                                 ![r].resp = resp,
                                 ![r].retText = extractText(resp.content),
                                 ![r].retErr = NoErr]
       ELSE runs' = [runs EXCEPT ![r].pc = "tools",
                                 ![r].resp = resp,
                                 ![r].blk = 1,
                                 ![r].toolResults = <<>>]
    /\ UNCHANGED <<cfg, localTools, serverTools>>
    /\ UNCHANGED <<ctx, outsideLoop>>

\* Lines 158-164: a block that is no tool-use request, or names no local tool.
SkipBlock(r) ==
    /\ runs[r].pc = "tools"
    /\ runs[r].exec = NoExec
    /\ runs[r].blk <= Len(runs[r].resp.content)
    /\ ~IsExecutable(localTools, runs[r].resp.content[runs[r].blk])
    /\ runs' = [runs EXCEPT ![r].blk = @ + 1]
    /\ UNCHANGED <<cfg, localTools, serverTools, convs, obs>>
    /\ UNCHANGED <<ctx, outsideLoop>>

\* Lines 166-167: Execute is called under a fresh timeout; the tool will take
\* dur seconds and then hand back raw.
CallTool(r, raw, dur) ==
    /\ runs[r].pc = "tools"
    /\ runs[r].exec = NoExec
    /\ runs[r].blk <= Len(runs[r].resp.content)
    /\ IsExecutable(localTools, runs[r].resp.content[runs[r].blk])
    /\ runs' = [runs EXCEPT ![r].exec =
                  [name |-> runs[r].resp.content[runs[r].blk].name,
                   raw |-> raw, dur |-> dur, startedDone |-> ctx.done]]
    /\ obs' = [obs EXCEPT ![r].execs = @ + 1]
    /\ UNCHANGED <<cfg, localTools, serverTools, convs>>
    /\ UNCHANGED <<ctx, outsideLoop>>

NextBlock_stopAtError(blk, out, n) == IF out.err # NoErr THEN n + 1 ELSE blk + 1

\* Lines 158, 170-176: whatever Execute returned, the range over the
\* blocks of the response goes on with the next block.
NextBlock(blk, out, n) == blk + 1

\* Lines 167-176: Execute returns; its outcome becomes a tool result.
ToolReturns(r) ==
    /\ runs[r].pc = "tools"
    /\ runs[r].exec # NoExec
    /\ LET block == runs[r].resp.content[runs[r].blk]
           out == ExecuteUnder(localTools, block.name, runs[r].exec.raw,
                               runs[r].exec.dur, runs[r].toolTimeout, ctx.done)
           ran == out = runs[r].exec.raw
       IN  /\ runs' = [runs EXCEPT ![r].blk = NextBlock(@, out,
                                                         Len(runs[r].resp.content)),
                                    ![r].exec = NoExec,
                                    ![r].toolResults = Append(@, ToolResultOf(block, out))]
           /\ ctx' = IF runs[r].exec.startedDone /\ ran
                     THEN [ctx EXCEPT !.lateRuns = @ + 1]
                     ELSE ctx
    /\ UNCHANGED <<cfg, localTools, serverTools, convs, obs>>
    /\ UNCHANGED outsideLoop

ToolResultMessages_each(results) ==
    [k \in 1..Len(results) |-> NewUserMessage(<<results[k]>>)]

\* Line 183: the tool results of one iteration go into one user message.
ToolResultMessages(results) == <<NewUserMessage(results)>>

\* Lines 179-184: after the last block.
FinishTools(r) ==
    /\ runs[r].pc = "tools"
    /\ runs[r].exec = NoExec
    /\ runs[r].blk > Len(runs[r].resp.content)
    /\ IF runs[r].toolResults = <<>>
       THEN /\ runs' = [runs EXCEPT ![r].pc = "done",
                                    ![r].retText = extractText(runs[r].resp.content),
                                    ![r].retErr = NoErr]
            /\ UNCHANGED convs
       ELSE /\ convs' = StoreAppend(convs, runs[r].thread,
                                    ToolResultMessages(runs[r].toolResults))
            /\ runs' = [runs EXCEPT ![r].pc = "loop",
                                    ![r].i = @ + 1,
                                    ![r].toolResults = <<>>]
    /\ UNCHANGED <<cfg, localTools, serverTools, obs>>
    /\ UNCHANGED <<ctx, outsideLoop>>

(***************************************************************************)
(* Paths and the filesystem                                                *)
(***************************************************************************)

\* Longest input path, in components, and the most symlink hops one lookup
\* follows before it gives up (a loop).
MaxPathLen == 2

MaxLinkHops == 3

\* A path is a sequence of names; an absolute path starts at "/" (<<>>).
\* Names are spelled out so that prefix tests work on characters, as
\* strings.HasPrefix does.
NameChars(n) ==
    CASE n = "a" -> <<"a">>
      [] n = "f" -> <<"f">>
      [] n = "l" -> <<"l">>
      [] n = "m" -> <<"m">>
      [] n = "n" -> <<"n">>
      [] n = "out" -> <<"o", "u", "t">>
      [] n = "sb" -> <<"s", "b">>
      [] n = "sb2" -> <<"s", "b", "2">>
      [] n = "." -> <<".">>
      [] n = ".." -> <<".", ".">>

\* Names in the byte order os.ReadDir sorts by.
SortedNames == <<"a", "f", "l", "m", "n", "out", "sb", "sb2">>

RECURSIVE PathChars(_)
PathChars(p) ==
    IF p = <<>> THEN <<"/">>
    ELSE IF Len(p) = 1 THEN <<"/">> \o NameChars(p[1])
    ELSE <<"/">> \o NameChars(p[1]) \o PathChars(Tail(p))

isWithin_noSeparator(path, dir) == path = dir \/ HasPrefix(path, dir)

\* isWithin, on the characters of the two paths.
isWithin(path, dir) == path = dir \/ HasPrefix(path, dir \o <<"/">>)

\* filepath.Clean: drops "." and empty components, resolves "..", keeps a
\* relative path's leading ".." and drops ".." at the root of a rooted one.
RECURSIVE CleanInto(_, _, _)
CleanInto(stack, comps, rooted) ==
    IF comps = <<>> THEN stack
    ELSE LET c == Head(comps)
             rest == Tail(comps)
         IN  IF c = "." \/ c = "" THEN CleanInto(stack, rest, rooted)
             ELSE IF c = ".."
             THEN IF stack # <<>> /\ stack[Len(stack)] # ".."
                  THEN CleanInto(SubSeq(stack, 1, Len(stack) - 1), rest, rooted)
                  ELSE IF rooted THEN CleanInto(stack, rest, rooted)
                  ELSE CleanInto(Append(stack, c), rest, rooted)
             ELSE CleanInto(Append(stack, c), rest, rooted)

Clean(path) == [abs |-> path.abs, comps |-> CleanInto(<<>>, path.comps, path.abs)]

\* filepath.Join(dir, path) for an absolute dir: the two joined by a
\* separator, cleaned; a leading separator of path disappears in the join.
Join(dir, path) == CleanInto(<<>>, dir \o path.comps, TRUE)

\* filepath.Dir of an absolute, clean path.
Dir(p) == IF p = <<>> THEN <<>> ELSE SubSeq(p, 1, Len(p) - 1)

DirNode ==
    [kind |-> "dir", target |-> <<>>, data |-> "", size |-> 0, readable |-> TRUE]

FileNode(data, size) ==
    [kind |-> "file", target |-> <<>>, data |-> data, size |-> size,
     readable |-> TRUE]

LinkNode(target) ==
    [kind |-> "link", target |-> target, data |-> "", size |-> 0,
     readable |-> TRUE]

\* A file or directory whose mode lacks the read bit.
Unreadable(node) == [node EXCEPT !.readable = FALSE]

Exists(f, p) == p = <<>> \/ p \in DOMAIN f

Node(f, p) == IF p = <<>> THEN DirNode ELSE f[p]

NoPath == [ok |-> FALSE, path |-> <<>>]

\* Following every symlink of a path: from the resolved directory cur,
\* through the components left. Fails on a missing component, on a file in
\* the middle and after too many hops.
RECURSIVE Walk(_, _, _, _)
Walk(f, cur, rest, hops) ==
    IF rest = <<>> THEN [ok |-> TRUE, path |-> cur]
    ELSE LET next == Append(cur, Head(rest))
         IN  IF ~Exists(f, next) THEN NoPath
             ELSE IF f[next].kind = "link"
             THEN IF hops = 0 THEN NoPath
                  ELSE Walk(f, <<>>, f[next].target \o Tail(rest), hops - 1)
             ELSE IF f[next].kind = "file" /\ Tail(rest) # <<>> THEN NoPath
             ELSE Walk(f, next, Tail(rest), hops)

\* filepath.EvalSymlinks of an absolute path.
EvalSymlinks(f, p) == Walk(f, <<>>, p, MaxLinkHops)

\* EvalSymlinks with its error dropped: the empty string on failure.
EvalSymlinksChars(f, p) ==
    IF EvalSymlinks(f, p).ok THEN PathChars(EvalSymlinks(f, p).path) ELSE <<>>

PathErr(msg) == [ok |-> FALSE, path |-> <<>>, err |-> msg]

PathOk(p) == [ok |-> TRUE, path |-> p, err |-> NoErr]

EscapeText == "path escapes sandbox"

\* Lines 51-68: the nearest existing ancestor of a path that does not exist
\* decides; the path itself is returned unresolved.
RECURSIVE CheckAncestors(_, _, _, _)
CheckAncestors(f, ancestor, joined, absSandbox) ==
    LET parent == Dir(ancestor)
    IN  IF parent = ancestor THEN PathOk(joined)
        ELSE IF EvalSymlinks(f, parent).ok
        THEN IF ~isWithin(PathChars(EvalSymlinks(f, parent).path),
                          EvalSymlinksChars(f, absSandbox))
             THEN PathErr(EscapeText)
             ELSE PathOk(joined)
        ELSE CheckAncestors(f, parent, joined, absSandbox)

\* Lines 31-36: the check on the cleaned, joined path alone.
EscapesLexically(absSandbox, joined) ==
    ~isWithin(PathChars(joined), PathChars(absSandbox))

\* resolveSandboxedPath without its first check: the empty string joins to
\* the sandbox root itself.
resolveSandboxedPath_emptyIsRoot(f, absSandbox, path) ==
    LET joined == Join(absSandbox, Clean(path))
        resolved == EvalSymlinks(f, joined)
    IN  IF EscapesLexically(absSandbox, joined) THEN PathErr(EscapeText)
        ELSE IF resolved.ok
        THEN IF ~isWithin(PathChars(resolved.path),
                          EvalSymlinksChars(f, absSandbox))
             THEN PathErr(EscapeText)
             ELSE PathOk(resolved.path)
        ELSE CheckAncestors(f, joined, joined, absSandbox)

\* resolveSandboxedPath; empty is the empty string, absSandbox is
\* filepath.Abs(sandboxDir).
resolveSandboxedPath(f, absSandbox, path) ==
    IF path.empty THEN PathErr("path is empty")
    ELSE LET joined == Join(absSandbox, Clean(path))
             resolved == EvalSymlinks(f, joined)
         IN  IF EscapesLexically(absSandbox, joined) THEN PathErr(EscapeText)
             ELSE IF resolved.ok
             THEN IF ~isWithin(PathChars(resolved.path),
                               EvalSymlinksChars(f, absSandbox))
                  THEN PathErr(EscapeText)
                  ELSE PathOk(resolved.path)
             ELSE CheckAncestors(f, joined, joined, absSandbox)

(***************************************************************************)
(* Filesystem tools                                                        *)
(***************************************************************************)

maxFileReadSize == 1048576

maxListEntries == 200

\* The names an input path is built from, and the input paths: the empty
\* string, and relative or rooted paths of up to MaxPathLen components.
InputNames == {".", "..", "a", "f", "l", "n", "sb2"}

EmptyPath == [empty |-> TRUE, abs |-> FALSE, comps |-> <<>>]

InputPaths ==
    {EmptyPath} \cup
    [empty : {FALSE}, abs : BOOLEAN,
     comps : UNION {[1..k -> InputNames] : k \in 1..MaxPathLen}]

\* A tool input: a JSON object with a path, or bytes that are no JSON.
FsInputs == [json : {"ok"}, path : InputPaths] \cup {[json |-> "malformed", path |-> EmptyPath]}

WriteContents == {"hi"}

\* len(params.Content): "full" stands for content of exactly
\* maxFileReadSize bytes, "over" for one byte more.
ContentSize(c) ==
    CASE c = "hi" -> 2
      [] c = "full" -> maxFileReadSize
      [] c = "over" -> maxFileReadSize + 1
      [] OTHER -> 0

RECURSIVE JoinSlash(_)
JoinSlash(comps) ==
    IF comps = <<>> THEN ""
    ELSE IF Len(comps) = 1 THEN comps[1]
    ELSE comps[1] \o "/" \o JoinSlash(Tail(comps))

\* params.Path as the caller wrote it.
PathString(path) ==
    IF path.empty THEN ""
    ELSE (IF path.abs THEN "/" ELSE "") \o JoinSlash(path.comps)

\* os.MkdirAll: the filesystem afterwards, and the directories it made.
RECURSIVE MkdirAll(_, _)
MkdirAll(f, p) ==
    LET st == EvalSymlinks(f, p)
    IN  IF st.ok
        THEN [ok |-> Node(f, st.path).kind = "dir", fs |-> f, made |-> {}]
        ELSE IF p = <<>> THEN [ok |-> FALSE, fs |-> f, made |-> {}]
        ELSE LET up == MkdirAll(f, Dir(p))
                 parent == EvalSymlinks(up.fs, Dir(p))
                 entry == Append(parent.path, p[Len(p)])
             IN  IF ~up.ok \/ ~parent.ok \/ Exists(up.fs, entry)
                 THEN [ok |-> FALSE, fs |-> up.fs, made |-> up.made]
                 ELSE [ok |-> TRUE, fs |-> (entry :> DirNode) @@ up.fs,
                       made |-> up.made \cup {entry}]

\* Where open(p, O_WRONLY|O_CREATE|O_TRUNC) lands: the parent is resolved, a
\* missing last component is created, a symlink there is followed, also to
\* a target that does not exist yet.
RECURSIVE WriteTarget(_, _, _)
WriteTarget(f, p, hops) ==
    IF p = <<>> THEN NoPath
    ELSE LET parent == EvalSymlinks(f, Dir(p))
             entry == Append(parent.path, p[Len(p)])
         IN  IF ~parent.ok THEN NoPath
             ELSE IF Node(f, parent.path).kind # "dir" THEN NoPath
             ELSE IF ~Exists(f, entry) THEN [ok |-> TRUE, path |-> entry]
             ELSE IF f[entry].kind = "file" THEN [ok |-> TRUE, path |-> entry]
             ELSE IF f[entry].kind = "dir" THEN NoPath
             ELSE IF hops = 0 THEN NoPath
             ELSE WriteTarget(f, f[entry].target, hops - 1)

\* What a tool call hands back and what it did: fs is the filesystem
\* afterwards, accepted whether resolveSandboxedPath returned a path,
\* returned that path, reached the real locations read, listed or written.
ToolOutcome(f, result, isError, accepted, returned, reached) ==
    [fs |-> f, result |-> result, isError |-> isError, err |-> NoErr,
     accepted |-> accepted, returned |-> returned, reached |-> reached]

Rejected(f, result) == ToolOutcome(f, result, TRUE, FALSE, <<>>, {})

TooLarge_inclusive(size) == size >= maxFileReadSize

\* Line 131
TooLarge(size) == size > maxFileReadSize

\* fsReadTool.Execute
fsRead(f, sandbox, input) ==
    IF input.json # "ok" THEN Rejected(f, "invalid input: not JSON")
    ELSE LET r == resolveSandboxedPath(f, sandbox, input.path)
             st == EvalSymlinks(f, r.path)
         IN  IF ~r.ok THEN Rejected(f, r.err)
             ELSE IF ~st.ok
             THEN ToolOutcome(f, "file not found: " \o PathString(input.path),
                              TRUE, TRUE, r.path, {})
             ELSE IF Node(f, st.path).kind = "dir"
             THEN ToolOutcome(f, "path is a directory, use fs_list instead",
                              TRUE, TRUE, r.path, {st.path})
             ELSE IF TooLarge(Node(f, st.path).size)
             THEN ToolOutcome(f, "file too large: "
                                   \o ToString(Node(f, st.path).size)
                                   \o " bytes (max "
                                   \o ToString(maxFileReadSize) \o ")",
                              TRUE, TRUE, r.path, {st.path})
             ELSE IF ~Node(f, st.path).readable
             THEN ToolOutcome(f, "failed to read file: permission denied",
                              TRUE, TRUE, r.path, {})
             ELSE ToolOutcome(f, Node(f, st.path).data, FALSE, TRUE, r.path,
                              {st.path})

\* fsWriteTool.Execute
fsWrite(f, sandbox, input, content) ==
    IF input.json # "ok" THEN Rejected(f, "invalid input: not JSON")
    ELSE LET r == resolveSandboxedPath(f, sandbox, input.path)
             mk == MkdirAll(f, Dir(r.path))
             wt == WriteTarget(mk.fs, r.path, MaxLinkHops)
         IN  IF ~r.ok THEN Rejected(f, r.err)
             ELSE IF ~mk.ok
             THEN ToolOutcome(mk.fs, "failed to create directories: mkdir failed",
                              TRUE, TRUE, r.path, mk.made)
             ELSE IF ~wt.ok
             THEN ToolOutcome(mk.fs, "failed to write file: open failed",
                              TRUE, TRUE, r.path, mk.made)
             ELSE ToolOutcome(
                      (wt.path :> FileNode(content, ContentSize(content))) @@ mk.fs,
                      "wrote " \o ToString(ContentSize(content)) \o " bytes to "
                          \o PathString(input.path),
                      FALSE, TRUE, r.path, mk.made \cup {wt.path})

AtListLimit_oneMore(i) == i - 1 > maxListEntries

\* Line 248: the test that ends the loop at the i-th entry, counted from 1.
AtListLimit(i) == i - 1 >= maxListEntries

\* The entry at which the loop of lines 247-258 stops: the first one at the
\* limit, where it breaks, or else the last one.
LastIteration(names) ==
    IF \E i \in 1..Len(names) : AtListLimit(i)
    THEN CHOOSE i \in 1..Len(names) :
            AtListLimit(i) /\ \A j \in 1..(i - 1) : ~AtListLimit(j)
    ELSE Len(names)

\* Lines 248-257: what the loop writes for the i-th entry.
Iteration(f, dir, names, i) ==
    IF AtListLimit(i)
    THEN "... and " \o ToString(Len(names) - maxListEntries) \o " more entries\n"
    ELSE names[i]
           \o (IF f[Append(dir, names[i])].kind = "dir" THEN "/" ELSE "")
           \o "\n"

\* What the loop writes for the entries lo..hi, in order.
RECURSIVE Iterations(_, _, _, _, _)
Iterations(f, dir, names, lo, hi) ==
    IF lo > hi THEN ""
    ELSE IF lo = hi THEN Iteration(f, dir, names, lo)
    ELSE Iterations(f, dir, names, lo, (lo + hi) \div 2)
           \o Iterations(f, dir, names, (lo + hi) \div 2 + 1, hi)

\* Lines 246-258: the builder after the loop has run from the i-th entry.
ListLines(f, dir, names, i) ==
    Iterations(f, dir, names, i, LastIteration(names))

\* os.ReadDir: the names in a directory, sorted.
ReadDir(f, dir) ==
    SelectSeq(SortedNames, LAMBDA n : Append(dir, n) \in DOMAIN f)

\* fsListTool.Execute without lines 260-262: an empty builder is returned
\* as it is.
fsList_emptyString(f, sandbox, input) ==
    IF input.json # "ok" THEN Rejected(f, "invalid input: not JSON")
    ELSE LET path == IF input.path.empty
                     THEN [empty |-> FALSE, abs |-> FALSE, comps |-> <<".">>]
                     ELSE input.path
             r == resolveSandboxedPath(f, sandbox, path)
             st == EvalSymlinks(f, r.path)
         IN  IF ~r.ok THEN Rejected(f, r.err)
             ELSE IF \/ ~st.ok
                     \/ Node(f, st.path).kind # "dir"
                     \/ ~Node(f, st.path).readable
             THEN ToolOutcome(f, "failed to list directory: open failed",
                              TRUE, TRUE, r.path, {})
             ELSE ToolOutcome(f, ListLines(f, st.path, ReadDir(f, st.path), 1),
                              FALSE, TRUE, r.path, {st.path})

\* fsListTool.Execute
fsList(f, sandbox, input) ==
    IF input.json # "ok" THEN Rejected(f, "invalid input: not JSON")
    ELSE LET path == IF input.path.empty
                     THEN [empty |-> FALSE, abs |-> FALSE, comps |-> <<".">>]
                     ELSE input.path
             r == resolveSandboxedPath(f, sandbox, path)
             st == EvalSymlinks(f, r.path)
         IN  IF ~r.ok THEN Rejected(f, r.err)
             ELSE IF \/ ~st.ok
                     \/ Node(f, st.path).kind # "dir"
                     \/ ~Node(f, st.path).readable
             THEN ToolOutcome(f, "failed to list directory: open failed",
                              TRUE, TRUE, r.path, {})
             ELSE IF ReadDir(f, st.path) = <<>>
             THEN ToolOutcome(f, "(empty directory)", FALSE, TRUE, r.path,
                              {st.path})
             ELSE ToolOutcome(f, ListLines(f, st.path, ReadDir(f, st.path), 1),
                              FALSE, TRUE, r.path, {st.path})

NoOp == [op |-> "none"]

\* One call of a filesystem tool on the bot's sandbox directory.
FsCall(op, input, out) ==
    /\ fsOp = NoOp
    /\ fs' = out.fs
    /\ fsOp' = [op |-> op, input |-> input, result |-> out.result,
                isError |-> out.isError, err |-> out.err,
                accepted |-> out.accepted, returned |-> out.returned,
                reached |-> out.reached, before |-> fs]
    /\ UNCHANGED <<sandboxDir, outsideFs>>

FsReadCall(input) == FsCall("fs_read", input, fsRead(fs, sandboxDir, input))

FsWriteCall(input, content) ==
    FsCall("fs_write", input, fsWrite(fs, sandboxDir, input, content))

FsListCall(input) == FsCall("fs_list", input, fsList(fs, sandboxDir, input))

\* The tree every initial filesystem has: the sandbox /sb with a directory
\* and files, a sibling /sb2 and a directory /out outside it.
BaseTree ==
    (<<"sb">> :> DirNode) @@ (<<"sb", "a">> :> DirNode)
    @@ (<<"sb", "f">> :> FileNode("old", 3))
    @@ (<<"sb", "a", "f">> :> FileNode("inner", 5))
    @@ (<<"sb2">> :> DirNode) @@ (<<"sb2", "f">> :> FileNode("other", 5))
    @@ (<<"out">> :> DirNode) @@ (<<"out", "f">> :> FileNode("secret", 6))

SandboxDirs == {<<"sb">>, <<"sb", "a">>}

\* Where the symlinks l and m of the sandbox may point: outside or inside,
\* to something that exists or not, to each other, to themselves.
LinkTargetsL(sandbox) ==
    {<<"out">>, <<"out", "f">>, <<"out", "n">>, <<"sb", "a">>, <<"sb", "n">>,
     Append(sandbox, "m"), Append(sandbox, "l")}

LinkTargetsM(sandbox) == {<<"out">>, <<"out", "n">>, <<"sb", "a">>}

WithLinks(sandbox, l, m) ==
    (IF l = <<>> THEN <<>> ELSE (Append(sandbox, "l") :> LinkNode(l)))
    @@ (IF m = <<>> THEN <<>> ELSE (Append(sandbox, "m") :> LinkNode(m)))
    @@ BaseTree

\* Trees without symlinks where /sb/a/f is a file of exactly the size
\* ceiling, one byte above it, unreadable in an unreadable directory, or
\* missing from a directory that is then empty.
SpecialTrees ==
    { (<<"sb", "a", "f">> :> FileNode("full", maxFileReadSize)) @@ BaseTree,
      (<<"sb", "a", "f">> :> FileNode("over", maxFileReadSize + 1)) @@ BaseTree,
      (<<"sb", "a">> :> Unreadable(DirNode))
        @@ (<<"sb", "a", "f">> :> Unreadable(FileNode("inner", 5)))
        @@ BaseTree,
      [p \in DOMAIN BaseTree \ {<<"sb", "a", "f">>} |-> BaseTree[p]] }

InitialFilesystems(sandbox) ==
    {WithLinks(sandbox, l, m) : l \in LinkTargetsL(sandbox) \cup {<<>>},
                                m \in LinkTargetsM(sandbox) \cup {<<>>}}
    \cup SpecialTrees

(***************************************************************************)
(* ToolRegistry under concurrent callers: its state before any call        *)
(***************************************************************************)

IdleRegCall ==
    [pc |-> "idle", op |-> "none", name |-> "", kind |-> "", lo |-> 0,
     at |-> 0, has |-> FALSE, res |-> "none", inTool |-> FALSE,
     toolName |-> "", tool |-> "none", toolAt |-> 0, before |-> <<>>]

RegQuiet ==
    /\ rmu = [writer |-> "none", readers |-> {}]
    /\ rcalls = [g \in {"g1", "g2"} |-> IdleRegCall]
    /\ rlog = [n |-> 0, writes |-> <<>>, known |-> [g \in {"g1", "g2"} |-> {}]]

(***************************************************************************)
(* ConversationStore under concurrent callers, with slices as Go has them  *)
(***************************************************************************)

\* Calls of Get and Append, and changes a caller makes to a slice it got,
\* in one behaviour.
MaxStoreCalls == 3

Goroutines == {"g1", "g2"}

\* A slice is a backing array of the heap and a length; its capacity is the
\* length of the array. The nil slice has no array.
NilSlice == [arr |-> 0, len |-> 0]

ZeroMessage == [by |-> "", call |-> 0, j |-> 0]

Cap(h, s) == IF s.arr = 0 THEN 0 ELSE Len(h[s.arr])

\* The elements of a slice.
Elems(h, s) == [i \in 1..s.len |-> h[s.arr][i]]

\* make([]T, n)
Make(h, n) ==
    [heap |-> Append(h, [i \in 1..n |-> ZeroMessage]),
     slice |-> [arr |-> Len(h) + 1, len |-> n]]

\* copy(dst, src) for len(dst) = len(src)
Copy(h, dst, src) ==
    IF src.len = 0 THEN h
    ELSE [h EXCEPT ![dst.arr] =
             [i \in 1..Len(@) |-> IF i <= src.len THEN h[src.arr][i] ELSE @[i]]]

\* append(s, msgs...): in place when the capacity suffices, else into a new
\* array of twice the capacity or of the length needed.
GoAppend(h, s, msgs) ==
    LET need == s.len + Len(msgs)
        newcap == IF need > 2 * Cap(h, s) THEN need ELSE 2 * Cap(h, s)
    IN  IF msgs = <<>> THEN [heap |-> h, slice |-> s]
        ELSE IF need <= Cap(h, s)
        THEN [heap |-> [h EXCEPT ![s.arr] =
                          [i \in 1..Len(@) |->
                              IF i > s.len /\ i <= need
                              THEN msgs[i - s.len] ELSE @[i]]],
              slice |-> [arr |-> s.arr, len |-> need]]
        ELSE [heap |-> Append(h, [i \in 1..newcap |->
                                     IF i <= s.len THEN h[s.arr][i]
                                     ELSE IF i <= need THEN msgs[i - s.len]
                                     ELSE ZeroMessage]),
              slice |-> [arr |-> Len(h) + 1, len |-> need]]

ConversationStoreGet_alias(h, st, t) == [heap |-> h, slice |-> st[t]]

ConversationStoreGet_nilWhenEmpty(h, st, t) ==
    IF st[t].len = 0 THEN [heap |-> h, slice |-> NilSlice]
    ELSE [heap |-> Copy(Make(h, st[t].len).heap, Make(h, st[t].len).slice, st[t]),
          slice |-> Make(h, st[t].len).slice]

\* ConversationStore.Get, lines 29-32: a missing key reads as the nil slice;
\* the result is a new array with the elements copied.
ConversationStoreGet(h, st, t) ==
    LET history == st[t]
        copied == Make(h, history.len)
    IN  [heap |-> Copy(copied.heap, copied.slice, history),
         slice |-> copied.slice]

ConversationStoreAppend_replace(h, history, msgs) ==
    GoAppend(h, NilSlice, msgs)

\* ConversationStore.Append, line 38, right-hand side.
ConversationStoreAppend(h, history, msgs) == GoAppend(h, history, msgs)

\* sync.RWMutex
Unlocked == [writer |-> "none", readers |-> {}]

CanLock_always(m) == TRUE

CanLock(m) == m.writer = "none" /\ m.readers = {}

CanRLock(m) == m.writer = "none"

\* The messages of the k-th call, made by goroutine g with n arguments.
MessagesOf(g, k, n) == [j \in 1..n |-> [by |-> g, call |-> k, j |-> j]]

ClientMark == [by |-> "client", call |-> 0, j |-> 0]

IdleCall ==
    [pc |-> "idle", op |-> "none", thread |-> "", msgs |-> <<>>,
     history |-> NilSlice, ret |-> NilSlice, holds |-> FALSE,
     seen |-> {}, retAt |-> <<>>, mine |-> <<>>]

StoreQuiet ==
    /\ heap = <<>>
    /\ store = [t \in Threads |-> NilSlice]
    /\ smu = Unlocked
    /\ calls = [g \in Goroutines |-> IdleCall]
    /\ slog = [n |-> 0,
               log |-> [t \in Threads |-> <<>>],
               got |-> [t \in Threads |-> <<>>],
               done |-> {}]

\* A goroutine calls Append(t, msgs...) and waits for the lock (line 36).
CallAppend(g, t, n) ==
    /\ calls[g].pc = "idle"
    /\ slog.n < MaxStoreCalls
    /\ calls' = [calls EXCEPT ![g] =
                    [IdleCall EXCEPT !.pc = "lock", !.op = "Append",
                                     !.thread = t,
                                     !.msgs = MessagesOf(g, slog.n + 1, n)]]
    /\ slog' = [slog EXCEPT !.n = @ + 1]
    /\ UNCHANGED <<heap, store, smu, outsideStore>>

\* Line 36: s.mu.Lock()
AppendLock(g) ==
    /\ calls[g].pc = "lock"
    /\ CanLock(smu)
    /\ smu' = [smu EXCEPT !.writer = g]
    /\ calls' = [calls EXCEPT ![g].pc = "read"]
    /\ UNCHANGED <<heap, store, slog, outsideStore>>

\* Line 38, the operand: s.convs[threadID] is read.
AppendRead(g) ==
    /\ calls[g].pc = "read"
    /\ calls' = [calls EXCEPT ![g].pc = "write",
                              ![g].history = store[calls[g].thread]]
    /\ UNCHANGED <<heap, store, smu, slog, outsideStore>>

\* Line 38: the appended slice is stored. Every Get in flight on the thread
\* could now see the new history.
AppendWrite(g) ==
    /\ calls[g].pc = "write"
    /\ LET t == calls[g].thread
           out == ConversationStoreAppend(heap, calls[g].history, calls[g].msgs)
       IN  /\ heap' = out.heap
           /\ store' = [store EXCEPT ![t] = out.slice]
           /\ calls' = [h \in Goroutines |->
                          IF h = g THEN [calls[g] EXCEPT !.pc = "unlock"]
                          ELSE IF calls[h].op = "Get" /\ calls[h].thread = t
                                  /\ calls[h].pc # "idle"
                          THEN [calls[h] EXCEPT
                                  !.seen = @ \cup {Elems(out.heap, out.slice)}]
                          ELSE calls[h]]
           /\ slog' = [slog EXCEPT !.log[t] = @ \o calls[g].msgs]
    /\ UNCHANGED <<smu, outsideStore>>

\* Line 37, deferred: s.mu.Unlock(), and Append returns.
AppendReturn(g) ==
    /\ calls[g].pc = "unlock"
    /\ smu' = IF smu.writer = g THEN [smu EXCEPT !.writer = "none"] ELSE smu
    /\ slog' = [slog EXCEPT !.done = @ \cup {[thread |-> calls[g].thread,
                                               msgs |-> calls[g].msgs]}]
    /\ calls' = [calls EXCEPT ![g] = IdleCall]
    /\ UNCHANGED <<heap, store, outsideStore>>

\* A goroutine calls Get(t) and waits for the read lock (line 27).
CallGet(g, t) ==
    /\ calls[g].pc = "idle"
    /\ slog.n < MaxStoreCalls
    /\ calls' = [calls EXCEPT ![g] =
                    [IdleCall EXCEPT !.pc = "rlock", !.op = "Get",
                                     !.thread = t,
                                     !.seen = {Elems(heap, store[t])}]]
    /\ slog' = [slog EXCEPT !.n = @ + 1]
    /\ UNCHANGED <<heap, store, smu, outsideStore>>

\* Line 27: s.mu.RLock()
GetRLock(g) ==
    /\ calls[g].pc = "rlock"
    /\ CanRLock(smu)
    /\ smu' = [smu EXCEPT !.readers = @ \cup {g}]
    /\ calls' = [calls EXCEPT ![g].pc = "copy"]
    /\ UNCHANGED <<heap, store, slog, outsideStore>>

\* Lines 29-31: the history is read and copied.
GetCopy(g) ==
    /\ calls[g].pc = "copy"
    /\ LET t == calls[g].thread
           out == ConversationStoreGet(heap, store, t)
       IN  /\ heap' = out.heap
           /\ calls' = [calls EXCEPT ![g].pc = "runlock",
                                     ![g].ret = out.slice,
                                     ![g].retAt = Elems(out.heap, out.slice),
                                     ![g].mine = Elems(out.heap, out.slice)]
           /\ slog' = [slog EXCEPT !.got[t] = Elems(out.heap, out.slice)]
    /\ UNCHANGED <<store, smu, outsideStore>>

\* Line 28, deferred: s.mu.RUnlock(), and Get returns the copy.
GetReturn(g) ==
    /\ calls[g].pc = "runlock"
    /\ smu' = [smu EXCEPT !.readers = @ \ {g}]
    /\ calls' = [calls EXCEPT ![g].pc = "idle", ![g].holds = TRUE]
    /\ UNCHANGED <<heap, store, slog, outsideStore>>

\* The caller overwrites the first element of the slice Get gave it.
CallerOverwrites(g) ==
    /\ calls[g].pc = "idle"
    /\ calls[g].holds
    /\ calls[g].ret.len > 0
    /\ slog.n < MaxStoreCalls
    /\ heap' = [heap EXCEPT ![calls[g].ret.arr][1] = ClientMark]
    /\ calls' = [calls EXCEPT ![g].mine[1] = ClientMark]
    /\ slog' = [slog EXCEPT !.n = @ + 1]
    /\ UNCHANGED <<store, smu, outsideStore>>

\* The caller appends to the slice Get gave it.
CallerAppends(g) ==
    /\ calls[g].pc = "idle"
    /\ calls[g].holds
    /\ slog.n < MaxStoreCalls
    /\ LET out == GoAppend(heap, calls[g].ret, <<ClientMark>>)
       IN  /\ heap' = out.heap
           /\ calls' = [calls EXCEPT ![g].ret = out.slice,
                                     ![g].mine = Append(@, ClientMark)]
    /\ slog' = [slog EXCEPT !.n = @ + 1]
    /\ UNCHANGED <<store, smu, outsideStore>>

\* The caller cuts the last element off the slice Get gave it.
CallerTruncates(g) ==
    /\ calls[g].pc = "idle"
    /\ calls[g].holds
    /\ calls[g].ret.len > 0
    /\ slog.n < MaxStoreCalls
    /\ calls' = [calls EXCEPT ![g].ret.len = @ - 1,
                              ![g].mine = SubSeq(@, 1, Len(@) - 1)]
    /\ slog' = [slog EXCEPT !.n = @ + 1]
    /\ UNCHANGED <<heap, store, smu, outsideStore>>

BotQuiet ==
    /\ cfg = [MaxToolIterations |-> 10, ToolTimeout |-> 30,
             SystemPrompt |-> ""]
    /\ localTools = <<>>
    /\ serverTools = 0
    /\ convs = [t \in Threads |-> <<>>]
    /\ runs = [r \in Runs |-> IdleRun]
    /\ obs = [r \in Runs |-> IdleObs]

FsQuiet ==
    /\ sandboxDir = <<"sb">>
    /\ fs = BaseTree
    /\ fsOp = NoOp

\* No MCP servers configured, a live context, no message yet.
EnvQuiet ==
    /\ mcp = NewMCPManager(<<>>)
    /\ ctx = LiveContext
    /\ hm = IdleHandlers

\* The store of NewConversationStore.
InitStore == BotQuiet /\ FsQuiet /\ StoreQuiet /\ RegQuiet /\ EnvQuiet

NextStore ==
    \E g \in Goroutines :
        \/ \E t \in Threads, n \in 1..2 : CallAppend(g, t, n)
        \/ AppendLock(g)
        \/ AppendRead(g)
        \/ AppendWrite(g)
        \/ AppendReturn(g)
        \/ \E t \in Threads : CallGet(g, t)
        \/ GetRLock(g)
        \/ GetCopy(g)
        \/ GetReturn(g)
        \/ CallerOverwrites(g)
        \/ CallerAppends(g)
        \/ CallerTruncates(g)

SpecStore == InitStore /\ [][NextStore]_vars

(***************************************************************************)
(* ToolRegistry under concurrent callers                                   *)
(***************************************************************************)

\* Calls of registry methods in one behaviour, those a tool body makes
\* included.
MaxRegCalls == 3

\* The tools callers register: two different tools named echo, one fs_read.
RegTools ==
    { [name |-> "echo", kind |-> "honorsCtx"],
      [name |-> "echo", kind |-> "ignoresCtx"],
      [name |-> "fs_read", kind |-> "ignoresCtx"] }

\* What the tool of a kind hands back when it runs to its end.
RawOf(kind) == [result |-> kind, isError |-> FALSE, err |-> NoErr]

\* A read lock is held as the pair of the goroutine and whether it took the
\* lock from within a tool body.
ReadLockAfterLookup_held(m, g) == m

\* Line 171: the read lock is given back before the tool runs.
ReadLockAfterLookup(m, g) == [m EXCEPT !.readers = @ \ {<<g, FALSE>>}]

RegQueries == {"Definitions", "HasLocalTool", "IsEmpty", "LocalToolNames"}

\* A goroutine, or the tool body it is running, may start a call.
MayCall(g) ==
    /\ rcalls[g].pc \in {"idle", "tool"}
    /\ rlog.n < MaxRegCalls

StartCall(g, op, name, kind, pc) ==
    /\ rcalls' = [rcalls EXCEPT ![g].pc = pc, ![g].op = op, ![g].name = name,
                                ![g].kind = kind, ![g].has = FALSE,
                                ![g].res = "none",
                                ![g].lo = Len(rlog.writes),
                                ![g].at = 0, ![g].before = <<>>]
    /\ rlog' = [rlog EXCEPT !.n = @ + 1]
    /\ UNCHANGED <<localTools, serverTools, rmu, outsideReg>>

CallRegister(g, t) ==
    MayCall(g) /\ StartCall(g, "Register", t.name, t.kind, "lock")

CallAddServerTool(g) ==
    MayCall(g) /\ StartCall(g, "AddServerTool", "web_search", "", "lock")

CallQuery(g, q, name) ==
    MayCall(g) /\ StartCall(g, q, name, "", "rlock")

\* Execute is called by a goroutine, not from within a tool body.
CallExecute(g, name) ==
    /\ MayCall(g)
    /\ rcalls[g].pc = "idle"
    /\ StartCall(g, "Execute", name, "", "rlock")

\* r.mu.Lock()
RegLock(g) ==
    /\ rcalls[g].pc = "lock"
    /\ CanLock(rmu)
    /\ rmu' = [rmu EXCEPT !.writer = g]
    /\ rcalls' = [rcalls EXCEPT ![g].pc = "body"]
    /\ UNCHANGED <<localTools, serverTools, rlog, outsideReg>>

\* r.mu.RLock()
RegRLock(g) ==
    /\ rcalls[g].pc = "rlock"
    /\ CanRLock(rmu)
    /\ rmu' = [rmu EXCEPT !.readers = @ \cup {<<g, rcalls[g].inTool>>}]
    /\ rcalls' = [rcalls EXCEPT ![g].pc = "body"]
    /\ UNCHANGED <<localTools, serverTools, rlog, outsideReg>>

\* Line 143
RegisterBody(g) ==
    /\ rcalls[g].pc = "body"
    /\ rcalls[g].op = "Register"
    /\ localTools' = Register(localTools, rcalls[g].name, rcalls[g].kind)
    /\ rlog' = [rlog EXCEPT !.writes =
                   Append(@, [op |-> "Register", name |-> rcalls[g].name,
                              kind |-> rcalls[g].kind])]
    /\ rcalls' = [rcalls EXCEPT ![g].pc = "unlock",
                                ![g].at = Len(rlog.writes) + 1]
    /\ UNCHANGED <<serverTools, rmu, outsideReg>>

\* Line 151
AddServerToolBody(g) ==
    /\ rcalls[g].pc = "body"
    /\ rcalls[g].op = "AddServerTool"
    /\ serverTools' = AddServerTool(serverTools)
    /\ rlog' = [rlog EXCEPT !.writes =
                   Append(@, [op |-> "AddServerTool", name |-> "web_search",
                              kind |-> ""])]
    /\ rcalls' = [rcalls EXCEPT ![g].pc = "unlock",
                                ![g].at = Len(rlog.writes) + 1,
                                ![g].before = LocalToolNames(localTools)]
    /\ UNCHANGED <<localTools, rmu, outsideReg>>

\* The bodies of Definitions, HasLocalTool, IsEmpty and LocalToolNames.
QueryBody(g, order) ==
    /\ rcalls[g].pc = "body"
    /\ rcalls[g].op \in RegQueries
    /\ rcalls' = [rcalls EXCEPT
          ![g].pc = "unlock",
          ![g].at = Len(rlog.writes),
          ![g].has = TRUE,
          ![g].res =
              CASE rcalls[g].op = "Definitions" ->
                       Definitions(localTools, serverTools, order)
                [] rcalls[g].op = "HasLocalTool" ->
                       HasLocalTool(localTools, rcalls[g].name)
                [] rcalls[g].op = "IsEmpty" -> IsEmpty(localTools, serverTools)
                [] rcalls[g].op = "LocalToolNames" -> LocalToolNames(localTools)]
    /\ rlog' = IF rcalls[g].op = "HasLocalTool"
                  /\ HasLocalTool(localTools, rcalls[g].name)
               THEN [rlog EXCEPT !.known[g] = @ \cup {rcalls[g].name}]
               ELSE rlog
    /\ UNCHANGED <<localTools, serverTools, rmu, outsideReg>>

\* The deferred Unlock or RUnlock; the method returns, into the tool body
\* if that made the call.
RegReturn(g) ==
    /\ rcalls[g].pc = "unlock"
    /\ rmu' = IF rcalls[g].op \in RegQueries
               THEN [rmu EXCEPT !.readers = @ \ {<<g, rcalls[g].inTool>>}]
               ELSE [rmu EXCEPT !.writer = "none"]
    /\ rcalls' = [rcalls EXCEPT ![g].pc = IF rcalls[g].inTool THEN "tool"
                                          ELSE "idle"]
    /\ UNCHANGED <<localTools, serverTools, rlog, outsideReg>>

\* Line 170: the lookup of Execute.
ExecuteLookup(g) ==
    /\ rcalls[g].pc = "body"
    /\ rcalls[g].op = "Execute"
    /\ rcalls' = [rcalls EXCEPT
          ![g].pc = "found",
          ![g].at = Len(rlog.writes),
          ![g].toolAt = Len(rlog.writes),
          ![g].toolName = rcalls[g].name,
          ![g].tool = IF HasLocalTool(localTools, rcalls[g].name)
                      THEN localTools[rcalls[g].name] ELSE "none"]
    /\ UNCHANGED <<localTools, serverTools, rmu, rlog, outsideReg>>

\* Lines 171-176: RUnlock, then the unknown-tool error or the tool's body.
ExecuteRUnlock(g) ==
    /\ rcalls[g].pc = "found"
    /\ rmu' = ReadLockAfterLookup(rmu, g)
    /\ rcalls' = IF rcalls[g].tool = "none"
                 THEN [rcalls EXCEPT ![g].pc = "idle", ![g].has = TRUE,
                                     ![g].res = UnknownTool(rcalls[g].name)]
                 ELSE [rcalls EXCEPT ![g].pc = "tool", ![g].inTool = TRUE]
    /\ UNCHANGED <<localTools, serverTools, rlog, outsideReg>>

\* Line 176: the tool's Execute returns, and with it the registry's.
ToolBodyReturns(g) ==
    /\ rcalls[g].pc = "tool"
    /\ rcalls' = [rcalls EXCEPT
                     ![g].pc = "idle", ![g].inTool = FALSE, ![g].has = TRUE,
                     ![g].op = "Execute", ![g].name = rcalls[g].toolName,
                     ![g].res = ToolExecute(rcalls[g].tool, RawOf(rcalls[g].tool),
                                            1, DefaultToolTimeout)]
    /\ UNCHANGED <<localTools, serverTools, rmu, rlog, outsideReg>>

\* The registry of NewToolRegistry.
InitReg == BotQuiet /\ FsQuiet /\ StoreQuiet /\ RegQuiet /\ EnvQuiet

NextReg ==
    \E g \in Goroutines :
        \/ \E t \in RegTools : CallRegister(g, t)
        \/ CallAddServerTool(g)
        \/ \E q \in RegQueries : CallQuery(g, q, "echo")
        \/ CallExecute(g, "echo")
        \/ RegLock(g)
        \/ RegRLock(g)
        \/ RegisterBody(g)
        \/ AddServerToolBody(g)
        \/ \E order \in MapOrders(localTools) : QueryBody(g, order)
        \/ RegReturn(g)
        \/ ExecuteLookup(g)
        \/ ExecuteRUnlock(g)
        \/ ToolBodyReturns(g)

SpecReg == InitReg /\ [][NextReg]_vars

(***************************************************************************)
(* MCPManager: Connect, the bridged tools, Close                           *)
(***************************************************************************)

\* Longest list of server descriptors.
MaxServers == 2

McpServerNames == {"a", "a_b"}

McpToolNames == {"c", "b_c"}

\* What a server's tool listing yields before it ends.
Catalogs == {<<>>, <<"c">>, <<"b_c">>, <<"c", "b_c">>}

\* A descriptor and how its server behaves: whether createTransport accepts
\* it, whether the server answers, what its listing yields and whether the
\* listing then fails.
ServerConfigs ==
    { [name |-> n, transport |-> "bogus", up |-> FALSE, catalog |-> <<>>,
       listErr |-> FALSE] : n \in McpServerNames }
    \cup
    { [name |-> n, transport |-> "stdio", up |-> FALSE, catalog |-> <<>>,
       listErr |-> FALSE] : n \in McpServerNames }
    \cup
    [name : McpServerNames, transport : {"stdio"}, up : {TRUE},
     catalog : Catalogs, listErr : BOOLEAN]

ServerLists ==
    UNION { [1..n -> ServerConfigs] : n \in 0..MaxServers }

\* Lines 104-131: the transports createTransport knows.
TransportOk(serverCfg) == serverCfg.transport \in {"stdio", "sse", "streamable"}

\* Lines 142-144
McpToolName(serverName, toolName) == serverName \o "_" \o toolName

TransportErrText == "unknown transport type"

ConnectErrText == "connection failed"

ListingErrText == "tool listing failed"

\* Lines 47, 58, 71: one entry of errs.
ErrEntry(serverName, text) == serverName \o ": " \o text

\* Lines 89-92: nil, or one error that holds every entry of errs.
ConnectResult(errs) ==
    IF Len(errs) > 0
    THEN [isNil |-> FALSE, prefix |-> "MCP connection errors: ", parts |-> errs]
    ELSE [isNil |-> TRUE, prefix |-> "", parts |-> <<>>]

NextToClose_stopAtError(j, ok, n) == IF ok THEN j + 1 ELSE n + 1

\* Lines 97-101: an error of session.Close is logged, the range goes on.
NextToClose(j, ok, n) == j + 1

outsideMcp == <<cfg, serverTools, convs, runs, obs, fsVars, storeVars, regVars, ctx, hm>>

\* Lines 41-44
CallConnect ==
    /\ mcp.pc = "new"
    /\ mcp' = [mcp EXCEPT !.pc = "connecting", !.i = 1]
    /\ UNCHANGED <<localTools, outsideMcp>>

\* Lines 45-49: createTransport refuses the descriptor.
TransportFails ==
    /\ mcp.pc = "connecting"
    /\ mcp.i <= Len(mcp.servers)
    /\ LET serverCfg == mcp.servers[mcp.i]
       IN  /\ ~TransportOk(serverCfg)
           /\ mcp' = [mcp EXCEPT
                        !.errs = Append(@, ErrEntry(serverCfg.name, TransportErrText)),
                        !.attempts = Append(@, mcp.i),
                        !.i = @ + 1]
    /\ UNCHANGED <<localTools, outsideMcp>>

\* Lines 56-60: client.Connect fails.
ConnectFails ==
    /\ mcp.pc = "connecting"
    /\ mcp.i <= Len(mcp.servers)
    /\ LET serverCfg == mcp.servers[mcp.i]
       IN  /\ TransportOk(serverCfg)
           /\ ~serverCfg.up
           /\ mcp' = [mcp EXCEPT
                        !.errs = Append(@, ErrEntry(serverCfg.name, ConnectErrText)),
                        !.attempts = Append(@, mcp.i),
                        !.i = @ + 1]
    /\ UNCHANGED <<localTools, outsideMcp>>

\* Lines 56-68: the session is established and recorded; the listing starts.
SessionOpens ==
    /\ mcp.pc = "connecting"
    /\ mcp.i <= Len(mcp.servers)
    /\ LET serverCfg == mcp.servers[mcp.i]
       IN  /\ TransportOk(serverCfg)
           /\ serverCfg.up
           /\ mcp' = [mcp EXCEPT
                        !.connections =
                            Append(@, [name |-> serverCfg.name, session |-> mcp.i]),
                        !.closes = Append(@, 0),
                        !.attempts = Append(@, mcp.i),
                        !.pc = "listing",
                        !.k = 1]
    /\ UNCHANGED <<localTools, outsideMcp>>

\* Lines 69, 75-84: the listing yields a tool, which is wrapped and
\* registered under its composite name.
ToolListed ==
    /\ mcp.pc = "listing"
    /\ mcp.k <= Len(mcp.servers[mcp.i].catalog)
    /\ LET serverCfg == mcp.servers[mcp.i]
           toolName == serverCfg.catalog[mcp.k]
           name == McpToolName(serverCfg.name, toolName)
           wrapped == [serverName |-> serverCfg.name, toolName |-> toolName,
                       session |-> mcp.i]
       IN  /\ localTools' = Register(localTools, name, "honorsCtx")
           /\ mcp' = [mcp EXCEPT
                        !.bridges = Register(@, name, wrapped),
                        !.discovered = Append(@, [name |-> name, tool |-> wrapped]),
                        !.k = @ + 1]
    /\ UNCHANGED outsideMcp

\* Lines 69-73: the listing yields an error; the tools before it stay.
ListingFails ==
    /\ mcp.pc = "listing"
    /\ mcp.k > Len(mcp.servers[mcp.i].catalog)
    /\ mcp.servers[mcp.i].listErr
    /\ mcp' = [mcp EXCEPT
                 !.errs = Append(@, ErrEntry(mcp.servers[mcp.i].name, ListingErrText)),
                 !.pc = "connecting",
                 !.i = @ + 1]
    /\ UNCHANGED <<localTools, outsideMcp>>

\* Lines 69, 86: the listing ends.
ListingEnds ==
    /\ mcp.pc = "listing"
    /\ mcp.k > Len(mcp.servers[mcp.i].catalog)
    /\ ~mcp.servers[mcp.i].listErr
    /\ mcp' = [mcp EXCEPT !.pc = "connecting", !.i = @ + 1]
    /\ UNCHANGED <<localTools, outsideMcp>>

\* Lines 89-92
ConnectReturns ==
    /\ mcp.pc = "connecting"
    /\ mcp.i > Len(mcp.servers)
    /\ mcp' = [mcp EXCEPT !.pc = "connected", !.ret = ConnectResult(mcp.errs)]
    /\ UNCHANGED <<localTools, outsideMcp>>

\* ToolRegistry.Execute of a name, and mcpTool.Execute lines 164-167: the
\* call goes to the session and the tool name the registered wrapper holds.
BridgeExecute(name) ==
    /\ mcp.pc = "connected"
    /\ mcp' = [mcp EXCEPT !.called =
                 IF HasLocalTool(localTools, name)
                 THEN [name |-> name, found |-> TRUE,
                       session |-> mcp.bridges[name].session,
                       toolName |-> mcp.bridges[name].toolName]
                 ELSE [NoBridgeCall EXCEPT !.name = name]]
    /\ UNCHANGED <<localTools, outsideMcp>>

\* Line 96
CallClose ==
    /\ mcp.pc = "connected"
    /\ mcp' = [mcp EXCEPT !.pc = "closing", !.j = 1]
    /\ UNCHANGED <<localTools, outsideMcp>>

\* Lines 97-101: session.Close of the next connection, which may fail.
CloseSession(ok) ==
    /\ mcp.pc = "closing"
    /\ mcp.j <= Len(mcp.connections)
    /\ mcp' = [mcp EXCEPT
                 !.closes[mcp.j] = @ + 1,
                 !.closeErrs = IF ok THEN @ ELSE Append(@, mcp.j),
                 !.j = NextToClose(mcp.j, ok, Len(mcp.connections))]
    /\ UNCHANGED <<localTools, outsideMcp>>

\* Line 102
CloseReturns ==
    /\ mcp.pc = "closing"
    /\ mcp.j > Len(mcp.connections)
    /\ mcp' = [mcp EXCEPT !.pc = "closed"]
    /\ UNCHANGED <<localTools, outsideMcp>>

McpNames == { McpToolName(s, t) : s \in McpServerNames, t \in McpToolNames }

\* A manager as main.go makes it, with the servers of some configuration.
InitMcp ==
    /\ cfg = [MaxToolIterations |-> 10, ToolTimeout |-> 30,
             SystemPrompt |-> ""]
    /\ localTools = <<>>
    /\ serverTools = 0
    /\ convs = [t \in Threads |-> <<>>]
    /\ runs = [r \in Runs |-> IdleRun]
    /\ obs = [r \in Runs |-> IdleObs]
    /\ FsQuiet
    /\ StoreQuiet
    /\ RegQuiet
    /\ mcp \in { NewMCPManager(servers) : servers \in ServerLists }
    /\ ctx = LiveContext
    /\ hm = IdleHandlers

NextMcp ==
    \/ CallConnect
    \/ TransportFails
    \/ ConnectFails
    \/ SessionOpens
    \/ ToolListed
    \/ ListingFails
    \/ ListingEnds
    \/ ConnectReturns
    \/ \E name \in McpNames : BridgeExecute(name)
    \/ CallClose
    \/ \E ok \in BOOLEAN : CloseSession(ok)
    \/ CloseReturns

SpecMcp == InitMcp /\ [][NextMcp]_vars

(***************************************************************************)
(* One run of getClaudeResponse on a bot as constructed                    *)
(***************************************************************************)

Registries ==
    { <<>> } \cup { [n \in {"echo"} |-> k] : k \in ToolKinds }

\* What an earlier run has left in a thread: a question and its answer.
EarlierExchange ==
    << NewUserMessage(<<TextBlock("earlier")>>),
       [role |-> "assistant", content |-> <<TextBlock("answer")>>] >>

\* The store when a run starts: empty, or with an earlier exchange in the
\* other thread.
InitialStores ==
    { [t \in Threads |-> <<>>],
      [t \in Threads |-> IF t = "t2" THEN EarlierExchange ELSE <<>>] }

Init ==
    /\ cfg \in [MaxToolIterations : CapValues, ToolTimeout : TimeoutValues,
               SystemPrompt : {""}]
    /\ localTools \in Registries
    /\ serverTools \in {0, 1}
    /\ convs \in InitialStores
    /\ runs = [r \in Runs |-> IdleRun]
    /\ obs = [r \in Runs |-> IdleObs]
    /\ FsQuiet
    /\ StoreQuiet
    /\ RegQuiet
    /\ EnvQuiet

Next ==
    \/ \E u \in UserTexts : Start("r1", "t1", u)
    \/ BuildRequest("r1")
    \/ ReturnExhausted("r1")
    \/ ModelCallFails("r1")
    \/ \E resp \in Responses : ModelCallReturns("r1", resp)
    \/ SkipBlock("r1")
    \/ \E raw \in RawOutcomes, dur \in Durations : CallTool("r1", raw, dur)
    \/ ToolReturns("r1")
    \/ FinishTools("r1")

Spec == Init /\ [][Next]_vars

(***************************************************************************)
(* Two message events of one thread, each handled by its own goroutine     *)
(***************************************************************************)

\* What the user wrote in the message a run answers.
RunText(r) == IF r = "r1" THEN "hello" ELSE "again"

\* The model answers with a text, or with a text and a request for "echo".
TurnResponses ==
    { [content |-> <<TextBlock(TextAt(1))>>, stop |-> "end_turn"],
      [content |-> <<TextBlock(TextAt(1)), ToolUseBlock(2, "echo")>>,
       stop |-> "tool_use"] }

Echoed == [result |-> "echoed", isError |-> FALSE, err |-> NoErr]

\* ToolRegistry.Register called while runs are under way.
RegisterLate ==
    /\ ~HasLocalTool(localTools, "echo")
    /\ localTools' = Register(localTools, "echo", "ignoresCtx")
    /\ UNCHANGED <<cfg, serverTools, convs, runs, obs, ctx, outsideLoop>>

InitRuns ==
    /\ cfg = [MaxToolIterations |-> MaxCap, ToolTimeout |-> 0,
             SystemPrompt |-> ""]
    /\ localTools \in { <<>>, [n \in {"echo"} |-> "ignoresCtx"] }
    /\ serverTools = 0
    /\ convs = [t \in Threads |-> <<>>]
    /\ runs = [r \in Runs |-> IdleRun]
    /\ obs = [r \in Runs |-> IdleObs]
    /\ FsQuiet
    /\ StoreQuiet
    /\ RegQuiet
    /\ EnvQuiet

NextRuns ==
    \/ \E r \in Runs :
          \/ Start(r, "t1", RunText(r))
          \/ BuildRequest(r)
          \/ ReturnExhausted(r)
          \/ ModelCallFails(r)
          \/ \E resp \in TurnResponses : ModelCallReturns(r, resp)
          \/ SkipBlock(r)
          \/ CallTool(r, Echoed, 1)
          \/ ToolReturns(r)
          \/ FinishTools(r)
    \/ RegisterLate

SpecRuns == InitRuns /\ [][NextRuns]_vars

(***************************************************************************)
(* One run whose context may be cancelled at any moment                    *)
(***************************************************************************)

\* What run r is doing: waiting for a tool, or where its loop stands.
Doing(r) == IF runs[r].exec # NoExec THEN "tool" ELSE runs[r].pc

\* SIGINT or SIGTERM cancels the context of main.go, from which the context
\* of every handler derives.
Cancel ==
    /\ ~ctx.done
    /\ ctx' = [ctx EXCEPT !.done = TRUE,
                          !.seen = [r \in Runs |-> Doing(r)]]
    /\ UNCHANGED <<botVars, outsideLoop>>

InitCancel ==
    /\ cfg \in [MaxToolIterations : {1, MaxCap}, ToolTimeout : {0},
               SystemPrompt : {""}]
    /\ localTools \in Registries
    /\ serverTools = 0
    /\ convs = [t \in Threads |-> <<>>]
    /\ runs = [r \in Runs |-> IdleRun]
    /\ obs = [r \in Runs |-> IdleObs]
    /\ FsQuiet
    /\ StoreQuiet
    /\ RegQuiet
    /\ EnvQuiet

NextCancel ==
    \/ \E u \in UserTexts : Start("r1", "t1", u)
    \/ BuildRequest("r1")
    \/ ReturnExhausted("r1")
    \/ ModelCallFails("r1")
    \/ \E resp \in Responses : ModelCallReturns("r1", resp)
    \/ SkipBlock("r1")
    \/ \E raw \in RawOutcomes, dur \in Durations : CallTool("r1", raw, dur)
    \/ ToolReturns("r1")
    \/ FinishTools("r1")
    \/ Cancel

SpecCancel == InitCancel /\ [][NextCancel]_vars

(***************************************************************************)
(* handleMessage                                                           *)
(***************************************************************************)

\* Bot.config.UserID, and somebody else.
BotUser == "@bot:example.com"

Senders == {BotUser, "@user:example.com"}

\* Bot.startTime in milliseconds.
StartTime == 1000

Timestamps == {StartTime - 1, StartTime, StartTime + 1}

\* A message body is a sequence of pieces: the bot's id, a blank, a word.
Bodies ==
    { <<>>, <<" ">>, <<"hi">>, <<BotUser>>, <<BotUser, " ">>,
      <<BotUser, " ", "hi">>, <<"hi", " ", BotUser>> }

\* The events of a room: who sent it and when, whether its content is a
\* message, whether its Mentions list holds the bot, its body, and the
\* thread it relates to, if any.
Events ==
    [id : {"t1"}, sender : Senders, ts : Timestamps, parsed : BOOLEAN,
     mentions : BOOLEAN, body : Bodies, threadRoot : {"none", "t2"}]

RECURSIVE ConcatPieces(_)
ConcatPieces(pieces) ==
    IF pieces = <<>> THEN "" ELSE pieces[1] \o ConcatPieces(Tail(pieces))

RECURSIVE TrimLeft(_)
TrimLeft(pieces) ==
    IF pieces # <<>> /\ pieces[1] = " " THEN TrimLeft(Tail(pieces)) ELSE pieces

RECURSIVE TrimRight(_)
TrimRight(pieces) ==
    IF pieces # <<>> /\ pieces[Len(pieces)] = " "
    THEN TrimRight(SubSeq(pieces, 1, Len(pieces) - 1))
    ELSE pieces

\* strings.TrimSpace
TrimSpace(pieces) == TrimRight(TrimLeft(pieces))

\* Lines 305-308
stripMention(body, userID) ==
    ConcatPieces(TrimSpace(SelectSeq(body, LAMBDA piece : piece # userID)))

\* Lines 294-303: the Mentions list, or the id anywhere in the body.
isMentioned(msg) ==
    msg.mentions \/ \E k \in 1..Len(msg.body) : msg.body[k] = BotUser

TooOld_inclusive(ts, startTime) == ts <= startTime

\* Line 243
TooOld(ts, startTime) == ts < startTime

\* Lines 239-258: the event is answered.
PassesFilters(evt) ==
    /\ evt.sender # BotUser
    /\ ~TooOld(evt.ts, StartTime)
    /\ evt.parsed
    /\ isMentioned(evt)
    /\ stripMention(evt.body, BotUser) # ""

\* Lines 261-264
ThreadRootOf(evt) == IF evt.threadRoot # "none" THEN evt.threadRoot ELSE evt.id

SorryText == "Sorry, I encountered an error generating a response."

\* Lines 310-329: the content handed to SendMessageEvent.
ThreadReply(threadRootID, replyToID, text) ==
    [body |-> text, thread |-> threadRootID, inReplyTo |-> replyToID]

outsideHandler == <<botVars, fsVars, storeVars, regVars, mcp, ctx>>

\* Line 230: the syncer hands an event to a new goroutine.
Receive(r, evt) ==
    /\ hm.on[r].pc = "idle"
    /\ hm' = [hm EXCEPT !.on[r] = [pc |-> "called", evt |-> evt]]
    /\ UNCHANGED outsideHandler

\* Lines 239-258: one of the early returns.
Ignore(r) ==
    /\ hm.on[r].pc = "called"
    /\ runs[r].pc = "idle"
    /\ ~PassesFilters(hm.on[r].evt)
    /\ hm' = [hm EXCEPT !.on[r].pc = "returned"]
    /\ UNCHANGED outsideHandler

\* Lines 239-266: the event passes and getClaudeResponse is entered.
Accept(r) ==
    /\ hm.on[r].pc = "called"
    /\ PassesFilters(hm.on[r].evt)
    /\ Start(r, ThreadRootOf(hm.on[r].evt),
             stripMention(hm.on[r].evt.body, BotUser))

\* Lines 266-272: getClaudeResponse has returned; the reply is sent.
Reply(r) ==
    /\ hm.on[r].pc = "called"
    /\ runs[r].pc = "done"
    /\ LET evt == hm.on[r].evt
           response == IF runs[r].retErr # NoErr THEN SorryText
                       ELSE runs[r].retText
       IN  hm' = [hm EXCEPT
                    !.on[r].pc = "returned",
                    !.sent = Append(@, ThreadReply(ThreadRootOf(evt), evt.id,
                                                   response))]
    /\ UNCHANGED outsideHandler

InitHandle ==
    /\ cfg = [MaxToolIterations |-> MaxCap, ToolTimeout |-> 0,
             SystemPrompt |-> ""]
    /\ localTools \in { <<>>, [n \in {"echo"} |-> "ignoresCtx"] }
    /\ serverTools = 0
    /\ convs = [t \in Threads |-> <<>>]
    /\ runs = [r \in Runs |-> IdleRun]
    /\ obs = [r \in Runs |-> IdleObs]
    /\ FsQuiet
    /\ StoreQuiet
    /\ RegQuiet
    /\ EnvQuiet

NextHandle ==
    \/ \E evt \in Events : Receive("r1", evt)
    \/ Ignore("r1")
    \/ Accept("r1")
    \/ BuildRequest("r1")
    \/ ReturnExhausted("r1")
    \/ ModelCallFails("r1")
    \/ \E resp \in TurnResponses : ModelCallReturns("r1", resp)
    \/ SkipBlock("r1")
    \/ CallTool("r1", Echoed, 1)
    \/ ToolReturns("r1")
    \/ FinishTools("r1")
    \/ Reply("r1")

SpecHandle == InitHandle /\ [][NextHandle]_vars

(***************************************************************************)
(* fs_list on directories of few and of many entries                       *)
(***************************************************************************)

\* How far past maxListEntries the directories go.
MaxOver == 3

\* The numbers of entries: none, a few, and around maxListEntries.
EntryCounts ==
    0..MaxOver \cup (maxListEntries - MaxOver)..(maxListEntries + MaxOver)

\* The k-th name os.ReadDir returns, in byte order.
EntryName(k) == "e" \o ToString(1000 + k)

EntryNames(n) == [k \in 1..n |-> EntryName(k)]

\* A sandbox /sb of n entries where every m-th entry is a directory.
ManyEntries(n, m) ==
    (<<"sb">> :> DirNode)
    @@ [p \in {<<"sb", EntryName(k)>> : k \in 1..n} |->
          IF \E k \in 1..n : p[2] = EntryName(k) /\ k % m = 0
          THEN DirNode ELSE FileNode("x", 1)]

\* Lines 246-263 for the entries os.ReadDir returned.
Listing(f, dir, names) ==
    IF ListLines(f, dir, names, 1) = "" THEN "(empty directory)"
    ELSE ListLines(f, dir, names, 1)

\* fs_list of "." on such a sandbox.
ListManyCall ==
    /\ \E n \in EntryCounts :
          /\ DOMAIN fs = {<<"sb">>} \cup {<<"sb", EntryName(k)>> : k \in 1..n}
          /\ FsCall("fs_list",
                    [json |-> "ok",
                     path |-> [empty |-> FALSE, abs |-> FALSE, comps |-> <<".">>]],
                    ToolOutcome(fs, Listing(fs, sandboxDir, EntryNames(n)),
                                FALSE, TRUE, sandboxDir, {sandboxDir}))

InitList ==
    /\ BotQuiet
    /\ StoreQuiet
    /\ RegQuiet
    /\ EnvQuiet
    /\ sandboxDir = <<"sb">>
    /\ fs \in {ManyEntries(n, m) : n \in EntryCounts, m \in 1..(3 * MaxOver)}
    /\ fsOp = NoOp

NextList == ListManyCall

SpecList == InitList /\ [][NextList]_vars

(***************************************************************************)
(* Calls of fs_write and fs_read one after another on one sandbox          *)
(***************************************************************************)

\* The paths the calls name: a file, a symlink, a file whose parent is
\* missing, a file in a directory, a directory.
TripPaths ==
    {[empty |-> FALSE, abs |-> FALSE, comps |-> c] :
        c \in {<<"f">>, <<"l">>, <<"n", "f">>, <<"a", "f">>, <<"a">>}}

TripContents == {"hi", "full", "over"}

\* One more call on the sandbox as the calls before left it.
TripCall(op, input, content, out) ==
    /\ fs' = out.fs
    /\ fsOp' = [op |-> op, input |-> input, content |-> content,
                result |-> out.result, isError |-> out.isError,
                err |-> out.err]
    /\ UNCHANGED <<sandboxDir, outsideFs>>

TripWrite ==
    \E path \in TripPaths, content \in TripContents :
        TripCall("fs_write", [json |-> "ok", path |-> path], content,
                 fsWrite(fs, sandboxDir, [json |-> "ok", path |-> path], content))

TripRead ==
    \E path \in TripPaths :
        TripCall("fs_read", [json |-> "ok", path |-> path], "",
                 fsRead(fs, sandboxDir, [json |-> "ok", path |-> path]))

InitTrip ==
    /\ BotQuiet
    /\ StoreQuiet
    /\ RegQuiet
    /\ EnvQuiet
    /\ sandboxDir = <<"sb">>
    /\ fs \in {WithLinks(sandboxDir, l, <<>>) :
                  l \in LinkTargetsL(sandboxDir) \cup {<<>>}}
    /\ fsOp = NoOp

NextTrip == TripWrite \/ TripRead

SpecTrip == InitTrip /\ [][NextTrip]_vars

(***************************************************************************)
(* The system prompt of a request, over registries and configured prompts  *)
(***************************************************************************)

MaxPromptTools == 3

PromptNames == {"echo", "fs", "fs_list", "fs_read", "fs_write", "fsx", "zip"}

PromptRegistries ==
    {[n \in S |-> "ignoresCtx"] :
        S \in {T \in SUBSET PromptNames : Cardinality(T) <= MaxPromptTools}}

ConfiguredPrompts == {"", "Be brief."}

InitPrompt ==
    /\ cfg \in [MaxToolIterations : {1}, ToolTimeout : {0},
                 SystemPrompt : ConfiguredPrompts]
    /\ localTools \in PromptRegistries
    /\ serverTools \in {0, 1, 2}
    /\ convs = [t \in Threads |-> <<>>]
    /\ runs = [r \in Runs |-> IdleRun]
    /\ obs = [r \in Runs |-> IdleObs]
    /\ FsQuiet
    /\ StoreQuiet
    /\ RegQuiet
    /\ EnvQuiet

NextPrompt ==
    \/ Start("r1", "t1", "hello")
    \/ BuildRequest("r1")
    \/ ModelCallFails("r1")

SpecPrompt == InitPrompt /\ [][NextPrompt]_vars

(***************************************************************************)
(* mcpTool.Execute: one call of a bridged tool                             *)
(***************************************************************************)

MaxParts == 2

\* The argument payloads: no bytes at all, bytes that are no JSON, JSON that
\* is no object, the JSON null, a JSON object.
Payloads == {"absent", "malformed", "array", "null", "object"}

\* Line 159: json.Unmarshal into a map accepts an object and null.
Unmarshals(payload) == payload \in {"object", "null"}

UnmarshalErrText(payload) ==
    IF payload = "malformed"
    THEN "invalid character 'x' looking for beginning of value"
    ELSE "json: cannot unmarshal array into Go value of type map[string]interface {}"

\* The parts a remote result may hold.
ContentParts ==
    { [type |-> "text", text |-> "one"], [type |-> "text", text |-> "two"],
      [type |-> "image", text |-> ""] }

\* What session.CallTool hands back: an error, or a result with content
\* parts and the remote's error flag.
RemoteOutcomes ==
    { [failed |-> TRUE, content |-> <<>>, isError |-> FALSE] }
    \cup [failed : {FALSE},
          content : UNION {[1..n -> ContentParts] : n \in 0..MaxParts},
          isError : BOOLEAN]

\* json.Marshal of a part that is no text.
MarshalPart(part) == "{\"type\":\"" \o part.type \o "\"}"

\* mcpResultToText, lines 213-233
mcpResultToText(content) ==
    JoinLines([k \in 1..Len(content) |->
                 IF content[k].type = "text" THEN content[k].text
                 ELSE MarshalPart(content[k])])

mcpToolExecute_flagCleared(payload, remote) ==
    IF payload # "absent" /\ ~Unmarshals(payload)
    THEN [result |-> "invalid tool input: " \o UnmarshalErrText(payload),
          isError |-> TRUE, err |-> NoErr, contacted |-> FALSE]
    ELSE IF remote.failed
    THEN [result |-> "", isError |-> FALSE,
          err |-> "MCP tool call failed: connection closed", contacted |-> TRUE]
    ELSE [result |-> mcpResultToText(remote.content), isError |-> FALSE,
          err |-> NoErr, contacted |-> TRUE]

\* mcpTool.Execute, lines 156-174; contacted says whether session.CallTool
\* was called.
mcpToolExecute(payload, remote) ==
    IF payload # "absent" /\ ~Unmarshals(payload)
    THEN [result |-> "invalid tool input: " \o UnmarshalErrText(payload),
          isError |-> TRUE, err |-> NoErr, contacted |-> FALSE]
    ELSE IF remote.failed
    THEN [result |-> "", isError |-> FALSE,
          err |-> "MCP tool call failed: connection closed", contacted |-> TRUE]
    ELSE [result |-> mcpResultToText(remote.content),
          isError |-> remote.isError, err |-> NoErr, contacted |-> TRUE]

\* The loop executes a tool-use block that names a bridged tool: Execute
\* runs against a session that will answer with remote, and its outcome
\* becomes the block's tool result (claude.go, lines 166-177).
BridgedCall(payload, remote) ==
    /\ mcp' = [mcp EXCEPT !.called =
                 [name |-> "a_c", found |-> TRUE, payload |-> payload,
                  remote |-> remote,
                  out |-> mcpToolExecute(payload, remote),
                  toolResult |-> ToolResultOf(ToolUseBlock(1, "a_c"),
                                              mcpToolExecute(payload, remote))]]
    /\ UNCHANGED <<localTools, outsideMcp>>

InitBridged ==
    /\ BotQuiet
    /\ FsQuiet
    /\ StoreQuiet
    /\ RegQuiet
    /\ EnvQuiet

NextBridged ==
    \E payload \in Payloads, remote \in RemoteOutcomes :
        BridgedCall(payload, remote)

SpecBridged == InitBridged /\ [][NextBridged]_vars

(***************************************************************************)
(* Runs on one thread, one after the other                                 *)
(***************************************************************************)

\* handleMessage is called for the next event of the thread only after the
\* run for the event before has returned.
StartAfterOthers(r) ==
    /\ \A q \in Runs \ {r} : runs[q].pc \in {"idle", "done"}
    /\ Start(r, "t1", RunText(r))

InitSeq ==
    /\ cfg \in [MaxToolIterations : {1, MaxCap}, ToolTimeout : {0},
                 SystemPrompt : {""}]
    /\ localTools = [n \in {"echo"} |-> "ignoresCtx"]
    /\ serverTools = 0
    /\ convs = [t \in Threads |-> <<>>]
    /\ runs = [r \in Runs |-> IdleRun]
    /\ obs = [r \in Runs |-> IdleObs]
    /\ FsQuiet
    /\ StoreQuiet
    /\ RegQuiet
    /\ EnvQuiet

NextSeq ==
    \E r \in Runs :
        \/ StartAfterOthers(r)
        \/ BuildRequest(r)
        \/ ReturnExhausted(r)
        \/ ModelCallFails(r)
        \/ \E resp \in TurnResponses : ModelCallReturns(r, resp)
        \/ SkipBlock(r)
        \/ CallTool(r, Echoed, 1)
        \/ ToolReturns(r)
        \/ FinishTools(r)

SpecSeq == InitSeq /\ [][NextSeq]_vars

(***************************************************************************)
(* main: the registry is filled, first with the filesystem tools, then by  *)
(* the bridge                                                              *)
(***************************************************************************)

\* NewFilesystemTools, lines 77-83: the names of the three tools.
FilesystemToolNames == {"fs_read", "fs_write", "fs_list"}

\* The servers a configuration may name and the tools they may list.
WiredServerNames == {"fs", "db"}

WiredCatalogs == {<<>>, <<"read">>, <<"q">>, <<"read", "q">>}

WiredServerLists ==
    UNION { [1..n -> [name : WiredServerNames, transport : {"stdio"},
                      up : {TRUE}, catalog : WiredCatalogs,
                      listErr : {FALSE}]] : n \in 0..MaxServers }

WiredNames ==
    FilesystemToolNames
    \cup { McpToolName(sv, t) : sv \in WiredServerNames, t \in {"read", "q"} }

\* main.go, lines 155-163: with a sandbox directory configured, the three
\* filesystem tools are registered.
RegisterFilesystemTools ==
    /\ mcp.pc = "new"
    /\ cfg.SandboxDir # ""
    /\ ~HasLocalTool(localTools, "fs_read")
    /\ localTools' = Register(Register(Register(localTools,
                                 "fs_read", "ignoresCtx"),
                                 "fs_write", "ignoresCtx"),
                                 "fs_list", "ignoresCtx")
    /\ UNCHANGED <<mcp, outsideMcp>>

\* main.go, lines 165-173: Connect is called after the filesystem tools
\* are in the registry, when there are any.
ConnectAfterFilesystem ==
    /\ cfg.SandboxDir # "" => HasLocalTool(localTools, "fs_read")
    /\ CallConnect

\* ToolRegistry.Execute of a name once the bot is wired: the tool the map
\* holds under the name is the one that runs.
WiredExecute(name) ==
    /\ mcp.pc = "connected"
    /\ HasLocalTool(localTools, name)
    /\ mcp' = [mcp EXCEPT !.called =
                 [name |-> name, found |-> TRUE, tool |-> localTools[name]]]
    /\ UNCHANGED <<localTools, outsideMcp>>

InitWired ==
    /\ cfg \in [MaxToolIterations : {10}, ToolTimeout : {30},
                 SystemPrompt : {""}, SandboxDir : {"", "/sb"}]
    /\ localTools = <<>>
    /\ serverTools = 0
    /\ convs = [t \in Threads |-> <<>>]
    /\ runs = [r \in Runs |-> IdleRun]
    /\ obs = [r \in Runs |-> IdleObs]
    /\ FsQuiet
    /\ StoreQuiet
    /\ RegQuiet
    /\ mcp \in { NewMCPManager(servers) : servers \in WiredServerLists }
    /\ ctx = LiveContext
    /\ hm = IdleHandlers

NextWired ==
    \/ RegisterFilesystemTools
    \/ ConnectAfterFilesystem
    \/ SessionOpens
    \/ ToolListed
    \/ ListingEnds
    \/ ConnectReturns
    \/ \E name \in WiredNames : WiredExecute(name)

SpecWired == InitWired /\ [][NextWired]_vars

(***************************************************************************)
(* One call of a filesystem tool on some filesystem                        *)
(***************************************************************************)

\* The defaults of main.go for the configuration of the loop.
InitFS ==
    /\ BotQuiet
    /\ StoreQuiet
    /\ RegQuiet
    /\ EnvQuiet
    /\ sandboxDir \in SandboxDirs
    /\ fs \in InitialFilesystems(sandboxDir)
    /\ fsOp = NoOp

NextFS ==
    \/ \E input \in FsInputs : FsReadCall(input)
    \/ \E input \in FsInputs, content \in WriteContents :
          FsWriteCall(input, content)
    \/ \E input \in FsInputs : FsListCall(input)

SpecFS == InitFS /\ [][NextFS]_vars

(***************************************************************************)
(* Properties of the agent loop                                            *)
(***************************************************************************)

Started == {r \in Runs : runs[r].pc # "idle"}

Finished == {r \in Runs : runs[r].pc = "done"}

History(r) == convs[runs[r].thread]

\* What run r has added to its thread so far.
Appended(r) == SubSeq(History(r), Len(obs[r].base) + 1, Len(History(r)))

ConfiguredCap == cfg.MaxToolIterations

CapOrOne == IF ConfiguredCap > 1 THEN ConfiguredCap ELSE 1

ConfiguredTimeout ==
    IF cfg.ToolTimeout > 0 THEN cfg.ToolTimeout ELSE 30

IsRegisteredRequest(b) ==
    b.type = "tool_use" /\ b.name \in DOMAIN localTools

HasRegisteredRequest(content) ==
    \E k \in 1..Len(content) : IsRegisteredRequest(content[k])

\* The text segments of a response, in order, one per line.
RECURSIVE TextsJoined(_)
TextsJoined(content) ==
    IF content = <<>> THEN ""
    ELSE LET h == Head(content)
             rest == Tail(content)
         IN  IF h.type # "text" THEN TextsJoined(rest)
             ELSE IF \E k \in 1..Len(rest) : rest[k].type = "text"
                  THEN h.text \o "\n" \o TextsJoined(rest)
                  ELSE h.text

IsToolResultMessage(m) ==
    /\ m.role = "user"
    /\ m.content # <<>>
    /\ \A k \in 1..Len(m.content) : m.content[k].type = "tool_result"

\* C1: a run makes at least one and at most max(1, MaxToolIterations) model
\* calls, and a cap of zero or below runs the loop exactly once, as a cap
\* of 1 does.
C1_CallsWithinCap ==
    \A r \in Started :
        /\ obs[r].calls <= CapOrOne
        /\ r \in Finished => obs[r].calls >= 1
        /\ ConfiguredCap <= 0 =>
              /\ runs[r].maxIterations = 1
              /\ r \in Finished => obs[r].calls = 1

C1_Witness ==
    \E r \in Finished :
        /\ ConfiguredCap >= 2
        /\ obs[r].calls = ConfiguredCap

\* C2: the run returns an error exactly when a model call failed; tool
\* errors, timeouts, unregistered names and an exhausted cap end it with a
\* nil error.
C2_ErrorIffModelCallFailed ==
    \A r \in Finished : (runs[r].retErr # NoErr) <=> obs[r].failed

C2_Witness ==
    \E r \in Finished :
        /\ runs[r].retErr = NoErr
        /\ runs[r].retText = "reached maximum tool use iterations"
        /\ \E k \in 1..Len(History(r)) :
              \E j \in 1..Len(History(r)[k].content) :
                  LET b == History(r)[k].content[j]
                  IN  b.type = "tool_result" /\ b.is_error

\* C3: a failed model call ends the run at once with empty text and an
\* error; the history is what the failed call was sent: the earlier history,
\* the user message and the entries of the earlier iterations.
C3_FailedCallKeepsHistory ==
    \A r \in Started :
        obs[r].failed =>
            /\ runs[r].pc = "done"
            /\ runs[r].retText = ""
            /\ runs[r].retErr # NoErr
            /\ History(r) = runs[r].params
            /\ Len(Appended(r)) = 1 + 2 * (obs[r].calls - 1)
            /\ SubSeq(History(r), 1, Len(obs[r].base)) = obs[r].base
            /\ Appended(r)[1].role = "user"
            /\ Appended(r)[1].content[1].type = "text"

C3_Witness ==
    \E r \in Finished :
        /\ obs[r].failed
        /\ obs[r].calls >= 2
        /\ Len(History(r)) = 3

\* C4: when every response asks for tool use and names a registered local
\* tool, a run with cap N >= 1 makes N model calls, executes tools in all N
\* iterations, adds 1 + 2N entries and returns the fixed text, no error.
C4_AlwaysToolUseExhaustsCap ==
    \A r \in Finished :
        (obs[r].allToolUse /\ ~obs[r].failed /\ ConfiguredCap >= 1) =>
            /\ obs[r].calls = ConfiguredCap
            /\ runs[r].i = ConfiguredCap
            /\ obs[r].execs >= ConfiguredCap
            /\ Len(Appended(r)) = 1 + 2 * ConfiguredCap
            /\ \A n \in 1..ConfiguredCap :
                  /\ Appended(r)[2 * n].role = "assistant"
                  /\ IsToolResultMessage(Appended(r)[2 * n + 1])
            /\ runs[r].retText = "reached maximum tool use iterations"
            /\ runs[r].retErr = NoErr

C4_Witness ==
    \E r \in Finished :
        /\ obs[r].allToolUse
        /\ ~obs[r].failed
        /\ ConfiguredCap >= 2
        /\ obs[r].calls = ConfiguredCap

\* C5: a response whose stop reason is not tool use ends the run: it is the
\* last entry, no tool runs after it, and the run returns its text segments
\* joined by newlines, in order, other segments skipped; on a fresh thread
\* with an empty registry that is one call and the entries user, assistant.
C5_PlainResponseEndsRun ==
    \A r \in Started :
        (~obs[r].failed /\ runs[r].resp.stop \notin {"tool_use", "none"}) =>
            /\ runs[r].pc = "done"
            /\ runs[r].exec = NoExec
            /\ History(r)[Len(History(r))] =
                  [role |-> "assistant", content |-> runs[r].resp.content]
            /\ runs[r].retText = TextsJoined(runs[r].resp.content)
            /\ runs[r].retErr = NoErr
            /\ obs[r].calls = runs[r].i + 1
            /\ (obs[r].base = <<>> /\ DOMAIN localTools = {} /\ serverTools = 0) =>
                  /\ obs[r].calls = 1
                  /\ obs[r].execs = 0
                  /\ Len(History(r)) = 2
                  /\ History(r)[1].role = "user"
                  /\ History(r)[2].role = "assistant"

C5_Witness ==
    \E r \in Finished :
        /\ runs[r].resp.stop = "end_turn"
        /\ Len(runs[r].resp.content) = 2
        /\ runs[r].resp.content[1].type = "text"
        /\ runs[r].resp.content[2].type = "text"
        /\ runs[r].retText = "a\nb"

\* C6: a run appends the user message, then per iteration the assistant
\* response and, when tool results were produced, one user message carrying
\* them; a tool round followed by a plain response is two calls and the four
\* entries user, assistant, user (tool results), assistant.
C6_AppendOrder ==
    \A r \in Started :
        LET S == Appended(r)
            answered == obs[r].calls - (IF obs[r].failed THEN 1 ELSE 0)
        IN  /\ Len(S) = 1 + answered + runs[r].i
            /\ S[1].role = "user"
            /\ S[1].content[1].type = "text"
            /\ \A k \in 2..Len(S) :
                  IF k % 2 = 0
                  THEN S[k].role = "assistant"
                  ELSE /\ IsToolResultMessage(S[k])
                       /\ HasRegisteredRequest(S[k - 1].content)
            /\ (/\ r \in Finished
                /\ obs[r].calls = 2
                /\ ~obs[r].failed
                /\ runs[r].resp.stop # "tool_use") =>
                  /\ Len(S) = 4
                  /\ HasRegisteredRequest(S[2].content)
                  /\ IsToolResultMessage(S[3])
                  /\ S[4] = [role |-> "assistant",
                             content |-> runs[r].resp.content]

C6_Witness ==
    \E r \in Finished :
        /\ obs[r].calls = 2
        /\ ~obs[r].failed
        /\ runs[r].resp.stop = "end_turn"
        /\ Len(Appended(r)) = 4
        /\ Len(Appended(r)[3].content) = 2

\* C7: a tool execution that returns an error, or that takes longer than the
\* tool timeout (30 seconds when the configured value is not positive),
\* yields the error-flagged result "internal error executing tool".
C7_ErrorOrTimeoutGivesGenericResult ==
    [][\A r \in Runs :
          (/\ runs[r].exec # NoExec
           /\ runs'[r].exec = NoExec
           /\ \/ runs[r].exec.raw.err # NoErr
              \/ runs[r].exec.dur > ConfiguredTimeout) =>
              LET res == runs'[r].toolResults[Len(runs'[r].toolResults)]
              IN  /\ res.is_error
                  /\ res.content = "internal error executing tool"]_vars

\* C8: a tool-use request naming no registered local tool is never executed
\* and gives no result; a tool-use response that yields no result at all
\* ends the run with the text of that response, no tool-result message and
\* no error.
C8_UnregisteredRequestsSkipped ==
    \A r \in Started :
        /\ runs[r].exec # NoExec => runs[r].exec.name \in DOMAIN localTools
        /\ obs[r].execs > 0 => DOMAIN localTools # {}
        /\ \A k \in 1..Len(runs[r].toolResults) :
              \E j \in 1..Len(runs[r].resp.content) :
                  /\ IsRegisteredRequest(runs[r].resp.content[j])
                  /\ runs[r].resp.content[j].id =
                        runs[r].toolResults[k].tool_use_id
        /\ (/\ runs[r].resp.stop = "tool_use"
            /\ ~HasRegisteredRequest(runs[r].resp.content)
            /\ runs[r].pc \notin {"tools"}) =>
              /\ runs[r].pc = "done"
              /\ History(r)[Len(History(r))] =
                    [role |-> "assistant", content |-> runs[r].resp.content]
              /\ obs[r].calls = runs[r].i + 1
              /\ runs[r].retText = TextsJoined(runs[r].resp.content)
              /\ runs[r].retErr = NoErr

C8_Witness ==
    \E r \in Finished :
        /\ DOMAIN localTools # {}
        /\ runs[r].resp.stop = "tool_use"
        /\ runs[r].resp.content =
              <<[type |-> "text", text |-> "a"],
                [type |-> "tool_use", id |-> 2, name |-> "web_search"]>>
        /\ runs[r].retText = "a"
        /\ runs[r].retErr = NoErr


(***************************************************************************)
(* Claims about the filesystem tools                                       *)
(***************************************************************************)

FsCalled == fsOp # NoOp

\* p lies at or below root, component by component.
IsPrefixPath(root, p) ==
    Len(root) <= Len(p) /\ SubSeq(p, 1, Len(root)) = root

\* The path a tool hands to resolveSandboxedPath for an input.
PathGiven(op, input) ==
    IF op = "fs_list" /\ input.path.empty
    THEN [empty |-> FALSE, abs |-> FALSE, comps |-> <<".">>]
    ELSE input.path

HasDotDot(path) == \E k \in 1..Len(path.comps) : path.comps[k] = ".."

\* The input's ".." segments take the cleaned, joined path out of root.
LeavesRoot(root, path) ==
    /\ ~path.empty
    /\ HasDotDot(path)
    /\ ~IsPrefixPath(root, Join(root, Clean(path)))

\* C9: whenever resolveSandboxedPath accepted the path of a tool call, every
\* location the call read, listed, created or wrote, after following all
\* symlinks, lies inside the sandbox root.
C9_AcceptedStaysInside ==
    (FsCalled /\ fsOp.accepted) =>
        \A loc \in fsOp.reached : IsPrefixPath(sandboxDir, loc)

\* C10: an input path whose ".." segments take the cleaned, joined path out
\* of the root is rejected with the escape error on every filesystem, so
\* without a lookup deciding, and each of the three tools hands that back as
\* an error-flagged result, not a process-level error, and touches nothing.
C10_DotDotEscapeRejected ==
    (FsCalled /\ fsOp.input.json = "ok"
        /\ LeavesRoot(sandboxDir, PathGiven(fsOp.op, fsOp.input))) =>
        /\ ~fsOp.accepted
        /\ fsOp.isError
        /\ fsOp.err = NoErr
        /\ fsOp.result = "path escapes sandbox"
        /\ fsOp.reached = {}
        /\ fs = fsOp.before
        /\ \A f \in {<<>>, BaseTree, fsOp.before} :
              resolveSandboxedPath(f, sandboxDir,
                                   PathGiven(fsOp.op, fsOp.input))
                  = PathErr("path escapes sandbox")

\* A write to ../n, which exists nowhere, was turned down.
C10_Witness ==
    /\ FsCalled
    /\ fsOp.op = "fs_write"
    /\ fsOp.input.json = "ok"
    /\ fsOp.input.path.comps = <<"..", "n">>
    /\ LeavesRoot(sandboxDir, fsOp.input.path)
    /\ fsOp.isError
    /\ fsOp.result = "path escapes sandbox"

\* The symlinks inside root whose target lies outside it.
OutwardLinks(f, root) ==
    {L \in DOMAIN f : /\ f[L].kind = "link"
                      /\ IsPrefixPath(root, L)
                      /\ L # root
                      /\ ~IsPrefixPath(root, f[L].target)}

\* C11: an input path that passes through a symlink inside the root whose
\* target is outside the root (the link itself, or anything below it,
\* existing or not) gets the escape error from resolveSandboxedPath.
C11_PathThroughOutwardLinkRejected ==
    (FsCalled /\ fsOp.input.json = "ok"
        /\ ~PathGiven(fsOp.op, fsOp.input).empty
        /\ \E L \in OutwardLinks(fsOp.before, sandboxDir) :
              IsPrefixPath(L, Join(sandboxDir,
                                   Clean(PathGiven(fsOp.op, fsOp.input))))) =>
        /\ ~fsOp.accepted
        /\ resolveSandboxedPath(fsOp.before, sandboxDir,
                                PathGiven(fsOp.op, fsOp.input))
              = PathErr("path escapes sandbox")

\* What the call's path leads to in the filesystem it started on, symlinks
\* followed.
Target(op) == EvalSymlinks(op.before, op.returned)

\* C20: no call of fs_read, fs_write or fs_list returns a process-level
\* error. Malformed JSON, an empty path, a sandbox escape, a missing file, a
\* directory or a file above 1 MiB given to fs_read, and an unreadable
\* directory given to fs_list all come back error-flagged with their text; a
\* file of exactly 1 MiB is read.
C20_NoProcessLevelError ==
    FsCalled =>
        /\ fsOp.err = NoErr
        /\ fsOp.isError => fsOp.result # ""
        /\ fsOp.input.json = "malformed" =>
              fsOp.isError /\ fsOp.result = "invalid input: not JSON"
        /\ (fsOp.input.json = "ok" /\ PathGiven(fsOp.op, fsOp.input).empty) =>
              fsOp.isError /\ fsOp.result = "path is empty"
        /\ (fsOp.input.json = "ok"
              /\ LeavesRoot(sandboxDir, PathGiven(fsOp.op, fsOp.input))) =>
              fsOp.isError /\ fsOp.result = "path escapes sandbox"
        /\ (fsOp.op = "fs_read" /\ fsOp.accepted /\ ~Target(fsOp).ok) =>
              /\ fsOp.isError
              /\ fsOp.result = "file not found: " \o PathString(fsOp.input.path)
        /\ (fsOp.op = "fs_read" /\ fsOp.accepted /\ Target(fsOp).ok) =>
              LET node == Node(fsOp.before, Target(fsOp).path)
              IN  /\ node.kind = "dir" =>
                        /\ fsOp.isError
                        /\ fsOp.result = "path is a directory, use fs_list instead"
                  /\ (node.kind = "file" /\ node.size > 1048576) =>
                        /\ fsOp.isError
                        /\ fsOp.result = "file too large: "
                              \o ToString(node.size) \o " bytes (max 1048576)"
                  /\ (node.kind = "file" /\ node.size <= 1048576
                         /\ node.readable) =>
                        ~fsOp.isError /\ fsOp.result = node.data
        /\ (fsOp.op = "fs_list" /\ fsOp.accepted /\ Target(fsOp).ok
              /\ ~Node(fsOp.before, Target(fsOp).path).readable) =>
              /\ fsOp.isError
              /\ fsOp.result = "failed to list directory: open failed"

\* A file of exactly 1 MiB was read.
C20_Witness ==
    /\ FsCalled
    /\ fsOp.op = "fs_read"
    /\ fsOp.accepted
    /\ Target(fsOp).ok
    /\ Node(fsOp.before, Target(fsOp).path).size = 1048576
    /\ ~fsOp.isError
    /\ fsOp.err = NoErr
    /\ fsOp.result = "full"

\* C15: threads are isolated: a step of a run, and so the whole run with
\* every Append it makes, changes the history of no thread but its own.
C15_OtherThreadsUntouched ==
    [][\A t \in Threads :
          (\A r \in Runs : runs'[r].pc # "idle" => runs'[r].thread # t) =>
              convs'[t] = convs[t]]_vars

\* A run with tool results has finished on t1 while t2 holds an earlier
\* exchange.
C15_Witness ==
    /\ \E r \in Finished : runs[r].thread = "t1" /\ Len(Appended(r)) >= 4
    /\ convs["t2"] = EarlierExchange

(***************************************************************************)
(* Claims about the ConversationStore                                      *)
(***************************************************************************)

\* What the store holds for a thread.
Stored(t) == Elems(heap, store[t])

IsPrefixSeq(s, t) == Len(s) <= Len(t) /\ SubSeq(t, 1, Len(s)) = s

\* The Append calls on a thread that have returned.
DoneOn(t) == {d \in slog.done : d.thread = t}

AppendInFlight(t) ==
    \E g \in Goroutines :
        calls[g].op = "Append" /\ calls[g].thread = t /\ calls[g].pc # "idle"

\* C12: what Get is about to return is a non-nil slice holding exactly the
\* messages appended to the thread so far, in append order; for a thread
\* never appended to it is empty, and the store still has no entry for it.
C12_GetReturnsAppended ==
    \A g \in Goroutines :
        calls[g].pc = "runlock" =>
            LET t == calls[g].thread
            IN  /\ calls[g].ret # NilSlice
                /\ calls[g].ret.arr # 0
                /\ Elems(heap, calls[g].ret) = slog.log[t]
                /\ Stored(t) = slog.log[t]
                /\ slog.log[t] = <<>> =>
                      calls[g].ret.len = 0 /\ store[t] = NilSlice

\* Get on a thread never appended to, while the other thread has messages.
C12_Witness ==
    \E g \in Goroutines :
        /\ calls[g].pc = "runlock"
        /\ slog.log[calls[g].thread] = <<>>
        /\ calls[g].ret.len = 0
        /\ calls[g].ret # NilSlice
        /\ \E t \in Threads : Len(slog.log[t]) >= 2

\* C13: a thread's history only grows at its end: what the store holds
\* before a step is a prefix of what it holds after it, and what a Get
\* returned is a prefix of what the next Get on the thread returns.
C13_AppendOnly ==
    [][\A t \in Threads :
          /\ IsPrefixSeq(Elems(heap, store[t]), Elems(heap', store'[t]))
          /\ IsPrefixSeq(slog.got[t], slog'.got[t])]_vars

\* Two Append calls on a thread have returned and a Get has seen both.
C13_Witness ==
    \E t \in Threads :
        /\ Cardinality(DoneOn(t)) >= 2
        /\ slog.got[t] = Stored(t)
        /\ Len(slog.got[t]) >= 2

\* C14: the slice Get returned shares no array with the store or with
\* another caller: whatever callers do to their slices, the store holds
\* what was appended, and a caller's slice holds what Get returned with the
\* caller's own changes, whatever is appended to the store later.
C14_GetReturnsIndependentCopy ==
    /\ \A t \in Threads : Stored(t) = slog.log[t]
    /\ \A g \in Goroutines :
          calls[g].holds =>
              /\ Elems(heap, calls[g].ret) = calls[g].mine
              /\ \A t \in Threads : store[t].arr # calls[g].ret.arr
              /\ \A h \in Goroutines \ {g} :
                    calls[h].holds => calls[h].ret.arr # calls[g].ret.arr

\* A caller has changed the slice it got; the store still holds what Get
\* returned.
C14_Witness ==
    \E g \in Goroutines :
        /\ calls[g].holds
        /\ calls[g].retAt # <<>>
        /\ calls[g].mine # calls[g].retAt
        /\ Stored(calls[g].thread) = calls[g].retAt

\* C16: no append is lost or duplicated. With no Append in flight on a
\* thread its history is as long as the messages of the returned Append
\* calls together; the messages of each returned call stand together in
\* argument order; no message stands twice; and what a Get returned is a
\* history the thread had between the Get's call and its return.
C16_NoLostOrDuplicatedAppend ==
    /\ \A t \in Threads :
          /\ ~AppendInFlight(t) =>
                Len(Stored(t)) =
                    Cardinality(UNION {{d.msgs[j] : j \in 1..Len(d.msgs)} :
                                          d \in DoneOn(t)})
          /\ \A d \in DoneOn(t) :
                \E p \in 1..Len(Stored(t)) :
                    /\ p + Len(d.msgs) - 1 <= Len(Stored(t))
                    /\ SubSeq(Stored(t), p, p + Len(d.msgs) - 1) = d.msgs
          /\ \A i, j \in 1..Len(Stored(t)) :
                Stored(t)[i] = Stored(t)[j] => i = j
    /\ \A g \in Goroutines :
          (calls[g].op = "Get" /\ calls[g].pc \in {"runlock", "idle"}) =>
              calls[g].retAt \in calls[g].seen

\* All calls have returned: two goroutines have appended to one thread and
\* a Get on it ran while the history changed.
C16_Witness ==
    /\ \A g \in Goroutines : calls[g].pc = "idle"
    /\ \E t \in Threads :
          /\ \E d, e \in DoneOn(t) : d.msgs[1].by # e.msgs[1].by
          /\ \E g \in Goroutines :
                /\ calls[g].holds
                /\ calls[g].thread = t
                /\ Cardinality(calls[g].seen) >= 2

(***************************************************************************)
(* Claims about the ToolRegistry                                           *)
(***************************************************************************)

\* The names registered by a sequence of writes, the number of server
\* declarations it added, and the tool it registered last under a name.
NamesIn(ws) == {ws[i].name : i \in {j \in 1..Len(ws) : ws[j].op = "Register"}}

ServersIn(ws) == Cardinality({i \in 1..Len(ws) : ws[i].op = "AddServerTool"})

LastKind(ws, name) ==
    LET I == {i \in 1..Len(ws) : ws[i].op = "Register" /\ ws[i].name = name}
    IN  IF I = {} THEN "none"
        ELSE ws[CHOOSE i \in I : \A j \in I : j <= i].kind

\* The writes that had taken effect when g's call read the registry, and
\* when its Execute looked the tool up.
WritesSeen(g) == SubSeq(rlog.writes, 1, rcalls[g].at)

WritesAtLookup(g) == SubSeq(rlog.writes, 1, rcalls[g].toolAt)

ExecuteReturned(g) ==
    rcalls[g].pc = "idle" /\ rcalls[g].op = "Execute" /\ rcalls[g].has

\* C17: Definitions returns one definition per distinct registered name and
\* one per AddServerTool call; registering under a used name replaces the
\* tool, so the number of local tools is the number of distinct names, and
\* Execute runs the tool registered last under the name.
C17_DefinitionsCountAndReplace ==
    /\ Cardinality(DOMAIN localTools) = Cardinality(NamesIn(rlog.writes))
    /\ \A n \in DOMAIN localTools : localTools[n] = LastKind(rlog.writes, n)
    /\ serverTools = ServersIn(rlog.writes)
    /\ \A g \in Goroutines :
          /\ (rcalls[g].op = "Definitions" /\ rcalls[g].has) =>
                LET defs == rcalls[g].res
                    ws == WritesSeen(g)
                IN  /\ rcalls[g].pc = "unlock" => ws = rlog.writes
                    /\ Len(defs) = Cardinality(NamesIn(ws)) + ServersIn(ws)
                    /\ \A n \in NamesIn(ws) :
                          Cardinality({k \in 1..Len(defs) :
                              defs[k].of = "tool" /\ defs[k].name = n}) = 1
                    /\ Cardinality({k \in 1..Len(defs) :
                          defs[k].of = "web_search"}) = ServersIn(ws)
          /\ (ExecuteReturned(g) /\ rcalls[g].tool # "none") =>
                /\ rcalls[g].res.err = NoErr
                /\ rcalls[g].res.result =
                      LastKind(WritesAtLookup(g), rcalls[g].name)

\* Execute ran the second of two tools registered as echo.
C17_Witness ==
    \E g \in Goroutines :
        /\ ExecuteReturned(g)
        /\ rcalls[g].res.result = "ignoresCtx"
        /\ \E i, j \in 1..Len(WritesAtLookup(g)) :
              /\ i < j
              /\ rlog.writes[i] = [op |-> "Register", name |-> "echo",
                                   kind |-> "honorsCtx"]
              /\ rlog.writes[j] = [op |-> "Register", name |-> "echo",
                                   kind |-> "ignoresCtx"]

\* C18: Execute on a name with no local registration returns the
\* unknown-tool error and runs no tool, whatever server declarations there
\* are; the local lookup knows exactly the registered names, before and
\* after AddServerTool; IsEmpty is true exactly when nothing local and no
\* server declaration is there.
C18_UnknownToolAndLocalLookup ==
    /\ \A n \in {"echo", "fs_read", "web_search"} :
          HasLocalTool(localTools, n) <=> n \in NamesIn(rlog.writes)
    /\ \A g \in Goroutines :
          /\ (ExecuteReturned(g)
                /\ LastKind(WritesAtLookup(g), rcalls[g].name) = "none") =>
                /\ rcalls[g].res.err = "unknown tool: " \o rcalls[g].name
                /\ rcalls[g].res.result = ""
                /\ rcalls[g].tool = "none"
          /\ rcalls[g].pc = "tool" =>
                /\ rcalls[g].tool # "none"
                /\ rcalls[g].tool = LastKind(WritesAtLookup(g), rcalls[g].toolName)
          /\ (rcalls[g].op = "AddServerTool" /\ rcalls[g].pc = "unlock") =>
                /\ LocalToolNames(localTools) = rcalls[g].before
                /\ \A n \in {"echo", "fs_read", "web_search"} :
                      HasLocalTool(localTools, n) <=>
                          n \in NamesIn(WritesSeen(g))
          /\ (rcalls[g].op = "IsEmpty" /\ rcalls[g].has) =>
                (rcalls[g].res <=>
                    (NamesIn(WritesSeen(g)) = {} /\ ServersIn(WritesSeen(g)) = 0))

\* Execute found no echo in a registry that has a server declaration only.
C18_Witness ==
    \E g \in Goroutines :
        /\ ExecuteReturned(g)
        /\ rcalls[g].tool = "none"
        /\ rcalls[g].res.err = "unknown tool: echo"
        /\ ServersIn(WritesAtLookup(g)) >= 1
        /\ NamesIn(WritesAtLookup(g)) = {}

InCriticalSection(g) == rcalls[g].pc \in {"body", "unlock", "found"}

Writing(g) == rcalls[g].op \in {"Register", "AddServerTool"}

\* Somebody waits for the lock and nobody can take a step.
Stuck ==
    /\ \E g \in Goroutines : rcalls[g].pc \in {"lock", "rlock"}
    /\ \A g \in Goroutines :
          \/ rcalls[g].pc = "idle"
          \/ rcalls[g].pc = "lock" /\ ~CanLock(rmu)
          \/ rcalls[g].pc = "rlock" /\ ~CanRLock(rmu)

\* What a query must answer on the registry a sequence of writes leaves.
QueryAgrees(op, name, res, ws) ==
    CASE op = "Definitions" ->
             /\ Len(res) = Cardinality(NamesIn(ws)) + ServersIn(ws)
             /\ {res[k].name : k \in {i \in 1..Len(res) : res[i].of = "tool"}}
                   = NamesIn(ws)
      [] op = "HasLocalTool" -> (res <=> name \in NamesIn(ws))
      [] op = "IsEmpty" -> (res <=> (NamesIn(ws) = {} /\ ServersIn(ws) = 0))
      [] op = "LocalToolNames" ->
             /\ {res[k] : k \in 1..Len(res)} = NamesIn(ws)
             /\ \A i, j \in 1..Len(res) :
                   i < j => (res[i] = "echo" /\ res[j] = "fs_read")

\* C19: callers never get stuck; a writer is alone in its critical section;
\* every query answers for the writes that had taken effect at some moment
\* between its call and its return; the lock is not held while a tool body
\* runs, so with nobody inside a critical section the lock is free, also
\* while tools run or call the registry themselves.
C19_SafeUnderConcurrentUse ==
    /\ ~Stuck
    /\ \A g, h \in Goroutines :
          (g # h /\ InCriticalSection(g) /\ Writing(g)) => ~InCriticalSection(h)
    /\ \A g \in Goroutines :
          /\ (rcalls[g].op \in RegQueries /\ rcalls[g].has) =>
                /\ rcalls[g].lo <= rcalls[g].at
                /\ rcalls[g].at <= Len(rlog.writes)
                /\ QueryAgrees(rcalls[g].op, rcalls[g].name, rcalls[g].res,
                               WritesSeen(g))
          /\ rcalls[g].pc = "tool" =>
                <<g, FALSE>> \notin rmu.readers /\ rmu.writer # g
    /\ (\A g \in Goroutines : ~InCriticalSection(g)) =>
          CanLock(rmu) /\ CanRLock(rmu)

\* While one goroutine's tool body runs, another has registered a tool and
\* is about to return.
C19_Witness ==
    \E g, h \in Goroutines :
        /\ g # h
        /\ rcalls[g].pc = "tool"
        /\ rcalls[h].op = "Register"
        /\ rcalls[h].pc = "unlock"
        /\ rcalls[h].lo >= 1

(***************************************************************************)
(* Claims about MCPManager                                                 *)
(***************************************************************************)

ConnectDone == mcp.pc \in {"connected", "closing", "closed"}

\* A server fails when its transport cannot be made, when it does not
\* answer, or when its tool listing ends in an error.
ServerFailed(serverCfg) ==
    \/ serverCfg.transport \notin {"stdio", "sse", "streamable"}
    \/ ~serverCfg.up
    \/ serverCfg.listErr

ErrTexts == {TransportErrText, ConnectErrText, ListingErrText}

\* The first three parts of C21: every descriptor is attempted in order,
\* the error is non-nil exactly when a server failed, and it names every
\* failed server.
ConnectReportsFailures ==
    ConnectDone =>
        /\ mcp.attempts = [n \in 1..Len(mcp.servers) |-> n]
        /\ ~mcp.ret.isNil <=>
               \E n \in 1..Len(mcp.servers) : ServerFailed(mcp.servers[n])
        /\ \A n \in 1..Len(mcp.servers) :
               ServerFailed(mcp.servers[n]) =>
                   \E p \in 1..Len(mcp.ret.parts), text \in ErrTexts :
                       mcp.ret.parts[p] = mcp.servers[n].name \o ": " \o text

\* Every tool of every server that did not fail is in the registry and
\* Execute of its name calls that tool on that server's session.
BridgedToolsUsable ==
    ConnectDone =>
        \A n \in 1..Len(mcp.servers) :
            ~ServerFailed(mcp.servers[n]) =>
                \A q \in 1..Len(mcp.servers[n].catalog) :
                    LET name == mcp.servers[n].name \o "_" \o mcp.servers[n].catalog[q]
                    IN  /\ name \in DOMAIN localTools
                        /\ mcp.bridges[name].session = n
                        /\ mcp.bridges[name].toolName = mcp.servers[n].catalog[q]

\* C21: Connect attempts every server descriptor whatever happened to the
\* earlier ones, returns a non-nil error if and only if some server failed
\* at transport creation, connection or tool listing, names every failed
\* server in that error, and leaves every tool of every server that did not
\* fail registered and executable.
C21_ConnectPartialFailure ==
    ConnectReportsFailures /\ BridgedToolsUsable

\* C22: every session Connect established is recorded by the manager, also
\* one whose listing failed afterwards, and one call of Close closes every
\* recorded session exactly once even when an earlier close fails.
C22_SessionsRecordedAndClosed ==
    /\ \A n \in 1..Len(mcp.servers) :
           (n \in { mcp.attempts[a] : a \in 1..Len(mcp.attempts) }
            /\ mcp.servers[n].transport = "stdio" /\ mcp.servers[n].up) =>
               Cardinality({ c \in 1..Len(mcp.connections) :
                               mcp.connections[c].session = n }) = 1
    /\ \A c \in 1..Len(mcp.connections) :
           /\ mcp.closes[c] <= 1
           /\ mcp.pc = "closing" =>
                  mcp.closes[c] = (IF c < mcp.j THEN 1 ELSE 0)
           /\ mcp.pc = "closed" => mcp.closes[c] = 1

\* Two sessions, the first from a server whose listing failed; closing the
\* first failed and Close has returned.
C22_Witness ==
    /\ mcp.pc = "closed"
    /\ Len(mcp.connections) = 2
    /\ mcp.servers[mcp.connections[1].session].listErr
    /\ 1 \in { mcp.closeErrs[e] : e \in 1..Len(mcp.closeErrs) }
    /\ mcp.closes[2] = 1

\* C23: two tools discovered from two differently named servers never get
\* the same registry name, and a tool bridged from one server is never
\* replaced by a tool bridged from another.
C23_NoCrossServerCollision ==
    \A p, q \in 1..Len(mcp.discovered) :
        mcp.discovered[p].tool.serverName # mcp.discovered[q].tool.serverName =>
            /\ mcp.discovered[p].name # mcp.discovered[q].name
            /\ mcp.bridges[mcp.discovered[p].name].serverName =
                   mcp.discovered[p].tool.serverName

(***************************************************************************)
(* Claims about runs that overlap on one thread                            *)
(***************************************************************************)

UserEntry(r) == NewUserMessage(<<TextBlock(RunText(r))>>)

\* Run r has appended the response it holds.
HoldsResponse(r) == runs[r].resp # NoResp

\* C24: runs are not serialized per thread id: a message of a thread can
\* start its run whatever the other runs of that thread are doing, so a
\* run can append the response of a model call whose request history is no
\* longer what the store holds in front of that response, and the entries
\* of two runs can be stored interleaved.
C24_RunsNotSerialized ==
    \A r \in Runs :
        runs[r].pc = "idle" => ENABLED Start(r, "t1", RunText(r))

\* Run r1 asked with only its own message, r2's message came in before the
\* answer, and both answers were appended after both messages.
C24_Witness ==
    /\ runs["r1"].pc = "done" /\ runs["r2"].pc = "done"
    /\ HoldsResponse("r1") /\ HoldsResponse("r2")
    /\ runs["r1"].params = <<UserEntry("r1")>>
    /\ runs["r2"].params = <<UserEntry("r1"), UserEntry("r2")>>
    /\ convs["t1"] = <<UserEntry("r1"), UserEntry("r2"),
                       ToParam(runs["r1"].resp), ToParam(runs["r2"].resp)>>

\* C25: for every interleaving of runs on one thread id, each assistant
\* entry directly follows the exact history that was sent in the model call
\* that produced it, and each tool-result entry directly follows the
\* assistant entry whose tool requests it answers.
C25_HistoryNotReordered ==
    [][\A r \in Runs :
          /\ (runs[r].pc = "model" /\ runs'[r].pc # "model"
              /\ runs'[r].retErr = NoErr) =>
                 convs'["t1"] = Append(runs[r].params, ToParam(runs'[r].resp))
          /\ (runs[r].pc = "tools" /\ runs'[r].pc = "loop") =>
                 /\ convs["t1"][Len(convs["t1"])] = ToParam(runs[r].resp)
                 /\ convs'["t1"] =
                        Append(convs["t1"], NewUserMessage(runs[r].toolResults))]_vars

\* The names a request's tool list holds.
RequestedNames(defs) == { defs[k].name : k \in 1..Len(defs) }

\* C30: every model request carries the thread's full stored history as
\* read at the moment of the call; when the earlier run had returned before
\* this one started, the first request holds every entry of the earlier run
\* followed by the new user message (three messages after a plain-text
\* turn); the request carries the full tool definition list when the
\* registry was non-empty at the start of the run and no tool list
\* otherwise.
C30_RequestCarriesHistoryAndTools ==
    [][\A r \in Runs :
          (runs[r].pc = "loop" /\ runs'[r].pc = "model") =>
              /\ runs'[r].params = convs["t1"]
              /\ \A q \in obs[r].after :
                     runs[r].i = 0 =>
                         /\ runs'[r].params[1] = UserEntry(q)
                         /\ runs'[r].params[Len(runs'[r].params)] = UserEntry(r)
                         /\ runs'[r].params =
                                SubSeq(runs'[r].params, 1, Len(obs[r].base))
                                    \o <<UserEntry(r)>>
                         /\ (obs[q].calls = 1 /\ runs[q].retErr = NoErr) =>
                                runs'[r].params =
                                    <<UserEntry(q), ToParam(runs[q].resp), UserEntry(r)>>
              /\ runs'[r].reqTools = NoTools <=> obs[r].emptyAtStart
              /\ ~obs[r].emptyAtStart =>
                     /\ Len(runs'[r].reqTools) =
                            Cardinality(DOMAIN localTools) + serverTools
                     /\ RequestedNames(runs'[r].reqTools) = DOMAIN localTools]_vars

\* The second plain-text turn of a thread: run r2 started after r1 had
\* returned and asks with three messages; the registry was empty when r2
\* started and holds a tool by now, and the request carries no tool list.
C30_Witness ==
    /\ runs["r2"].pc = "model"
    /\ obs["r2"].after = {"r1"}
    /\ Len(runs["r2"].params) = 3
    /\ runs["r2"].params[2].role = "assistant"
    /\ runs["r2"].reqTools = NoTools
    /\ localTools # <<>>

(***************************************************************************)
(* Claims about cancellation                                               *)
(***************************************************************************)

\* A model call that is in flight under a cancelled context ends in an
\* error of the run and appends nothing.
CancelledCallFails ==
    [][\A r \in Runs :
          (runs[r].pc = "model" /\ ctx.done /\ runs'[r].pc # "model") =>
              /\ runs'[r].pc = "done"
              /\ runs'[r].retErr # NoErr
              /\ convs' = convs]_vars

\* No tool that is started under a cancelled context runs to its end.
LateToolsTakeNoEffect == ctx.lateRuns = 0

\* A run whose context was cancelled while a tool was executing returns an
\* error.
CancelledInToolsEndsInError ==
    \A r \in Runs :
        (ctx.done /\ ctx.seen[r] = "tool" /\ runs[r].pc = "done") =>
            runs[r].retErr # NoErr

\* C26: cancelling the caller's context aborts the run: cancelled while a
\* model call is in flight, the run returns an error and appends nothing for
\* that call; cancelled during tool execution, every tool of the iteration
\* that has not started yet starts with a cancelled context and takes no
\* effect, and the run ends with an error at the next model call.
C26_CancelAbortsRun ==
    [][\A r \in Runs :
          /\ (runs[r].pc = "model" /\ ctx.done /\ runs'[r].pc # "model") =>
                 /\ runs'[r].pc = "done"
                 /\ runs'[r].retErr # NoErr
                 /\ convs' = convs
          /\ ctx'.lateRuns = 0
          /\ (ctx'.done /\ ctx'.seen[r] = "tool" /\ runs'[r].pc = "done") =>
                 runs'[r].retErr # NoErr]_vars

(***************************************************************************)
(* Claims about handleMessage                                              *)
(***************************************************************************)

\* The event is one the bot answers: not its own, not from before its
\* start, a message that mentions it, with text besides the mention.
Answerable(evt) ==
    /\ evt.sender # "@bot:example.com"
    /\ evt.ts >= StartTime
    /\ evt.parsed
    /\ \/ evt.mentions
       \/ \E k \in 1..Len(evt.body) : evt.body[k] = "@bot:example.com"
    /\ \E k \in 1..Len(evt.body) : evt.body[k] \notin {"@bot:example.com", " "}

\* C27: handleMessage calls the model and sends a reply only when the
\* sender is not the bot, the timestamp is not earlier than the start time
\* (equal is not earlier), the bot is mentioned and the text left after
\* stripping the mention is non-empty; for such a message it sends exactly
\* one thread reply, the text the run returned on success and the fixed
\* apology when the run returned an error; in every other case it makes no
\* model call, sends nothing and changes no history.
C27_RepliesOnlyToMentions ==
    \A r \in Runs :
        LET evt == hm.on[r].evt
        IN  /\ (hm.on[r].pc = "called" /\ runs[r].pc # "idle") => Answerable(evt)
            /\ hm.on[r].pc = "called" => hm.sent = <<>>
            /\ (hm.on[r].pc = "returned" /\ Answerable(evt)) =>
                   /\ Len(hm.sent) = 1
                   /\ obs[r].calls >= 1
                   /\ hm.sent[1].thread =
                          (IF evt.threadRoot = "none" THEN evt.id ELSE evt.threadRoot)
                   /\ hm.sent[1].inReplyTo = evt.id
                   /\ hm.sent[1].body =
                          (IF obs[r].failed
                           THEN "Sorry, I encountered an error generating a response."
                           ELSE runs[r].retText)
            /\ (hm.on[r].pc = "returned" /\ ~Answerable(evt)) =>
                   /\ hm.sent = <<>>
                   /\ runs[r].pc = "idle"
                   /\ obs[r].calls = 0
                   /\ convs = [t \in Threads |-> <<>>]

\* A message sent at the very millisecond the bot started, mentioned in the
\* body only, was answered with the apology after a failed model call.
C27_Witness ==
    /\ hm.on["r1"].pc = "returned"
    /\ hm.on["r1"].evt.ts = StartTime
    /\ ~hm.on["r1"].evt.mentions
    /\ obs["r1"].failed
    /\ Len(hm.sent) = 1
    /\ hm.sent[1].body = "Sorry, I encountered an error generating a response."

(***************************************************************************)
(* Claims about the tool results of one iteration                          *)
(***************************************************************************)

\* The invocation ids of the requests of a response that name a registered
\* local tool, in the order of the response.
RegisteredRequestIds(content) ==
    LET reqs == SelectSeq(content,
                    LAMBDA b : b.type = "tool_use" /\ b.name \in DOMAIN localTools)
    IN  [k \in 1..Len(reqs) |-> reqs[k].id]

ResultIds(results) == [k \in 1..Len(results) |-> results[k].tool_use_id]

\* C28: in each tool-use iteration the aggregated tool-result message holds
\* exactly one result per tool-use request that names a registered local
\* tool, in the order of the requests and each with its request's
\* invocation id; tools run one after another, each under a timeout of its
\* own, so an error or a timeout of one tool neither cancels nor skips the
\* tools after it.
C28_OneResultPerRegisteredRequest ==
    [][\A r \in Runs :
          /\ (runs[r].exec # NoExec /\ runs'[r].exec = NoExec) =>
                 LET block == runs[r].resp.content[runs[r].blk]
                     result == runs'[r].toolResults[Len(runs'[r].toolResults)]
                 IN  /\ runs'[r].blk = runs[r].blk + 1
                     /\ Len(runs'[r].toolResults) = Len(runs[r].toolResults) + 1
                     /\ result.tool_use_id = block.id
                     /\ (runs[r].exec.raw.err = NoErr
                         /\ runs[r].exec.dur <= ConfiguredTimeout) =>
                            /\ result.content = runs[r].exec.raw.result
                            /\ result.is_error = runs[r].exec.raw.isError
          /\ (runs[r].pc = "tools" /\ runs'[r].pc = "tools"
              /\ runs[r].exec = NoExec /\ runs'[r].exec # NoExec) =>
                 /\ runs'[r].exec.name = runs[r].resp.content[runs[r].blk].name
                 /\ \A k \in 1..(runs[r].blk - 1) :
                        runs[r].resp.content[k].type = "tool_use"
                        /\ runs[r].resp.content[k].name \in DOMAIN localTools =>
                            \E j \in 1..Len(runs[r].toolResults) :
                                runs[r].toolResults[j].tool_use_id =
                                    runs[r].resp.content[k].id
          /\ (runs[r].pc = "tools" /\ runs'[r].pc = "loop") =>
                 LET h == convs'[runs[r].thread]
                 IN  /\ Len(h) = Len(convs[runs[r].thread]) + 1
                     /\ h[Len(h)].role = "user"
                     /\ ResultIds(h[Len(h)].content) =
                            RegisteredRequestIds(runs[r].resp.content)
                     /\ h[Len(h)].content = runs[r].toolResults]_vars

\* Two requests for a registered tool in one response: the first ended in
\* an error of Execute, the second ran after it and gave its own result,
\* and both results went into one message in the order of the requests.
C28_Witness ==
    \E r \in Started :
        /\ runs[r].pc = "loop"
        /\ runs[r].i >= 1
        /\ LET last == History(r)[Len(History(r))]
           IN  /\ last.role = "user"
               /\ Len(last.content) = 2
               /\ last.content[1].type = "tool_result"
               /\ last.content[1].tool_use_id = 1
               /\ last.content[1].content = "internal error executing tool"
               /\ last.content[2].tool_use_id = 2
               /\ ~last.content[2].is_error
               /\ last.content[2].content = "echoed"

(***************************************************************************)
(* Claims about names that were seen registered                            *)
(***************************************************************************)

\* C29: the set of local tool names only grows, so under any interleaving
\* with Register and AddServerTool a name for which HasLocalTool returned
\* true is never answered with the unknown-tool error by a later Execute:
\* not by an Execute of the goroutine that asked (the loop asks, then
\* executes), and not by an Execute of another goroutine that looks the
\* name up after the answer was given.
C29_KnownNamesStayExecutable ==
    [][/\ DOMAIN localTools \subseteq DOMAIN localTools'
       /\ \A g \in Goroutines :
             (/\ rcalls'[g].pc = "idle"
              /\ rcalls'[g].op = "Execute"
              /\ rcalls'[g].has
              /\ rcalls'[g].tool = "none") =>
                 /\ rcalls'[g].name \notin rlog'.known[g]
                 /\ \A h \in Goroutines :
                        (/\ rcalls'[h].op = "HasLocalTool"
                         /\ rcalls'[h].has
                         /\ rcalls'[h].name = rcalls'[g].name
                         /\ rcalls'[h].res = TRUE) =>
                            rcalls'[g].toolAt < rcalls'[h].at]_vars

\* A goroutine was told that echo is registered, and its later Execute of
\* echo ran the tool.
C29_Witness ==
    \E g \in Goroutines :
        /\ ExecuteReturned(g)
        /\ rcalls[g].name = "echo"
        /\ rcalls[g].tool # "none"
        /\ "echo" \in rlog.known[g]
        /\ rcalls[g].res.err = NoErr


(***************************************************************************)
(* Properties of the filesystem tools: siblings, empty paths, listings     *)
(***************************************************************************)

\* The cleaned, joined path of an input is no descendant of root and is not
\* root, yet its spelling starts with root's spelling: a sibling such as
\* /sb2 against /sb.
NamePrefixSibling(root, path) ==
    /\ ~path.empty
    /\ PathChars(Join(root, Clean(path))) # PathChars(root)
    /\ HasPrefix(PathChars(Join(root, Clean(path))), PathChars(root))
    /\ ~HasPrefix(PathChars(Join(root, Clean(path))),
                  PathChars(root) \o <<"/">>)

\* C32: isWithin holds of a path and a directory only if the path equals the
\* directory or starts with the directory followed by a separator, so a
\* tool call whose input resolves to a sibling whose name merely starts with
\* the root's name is rejected as an escape and touches nothing.
C32_SiblingWithRootPrefixRejected ==
    /\ isWithin(PathChars(<<"sb">>), PathChars(<<"sb">>))
    /\ isWithin(PathChars(<<"sb", "a">>), PathChars(<<"sb">>))
    /\ ~isWithin(PathChars(<<"sb2">>), PathChars(<<"sb">>))
    /\ ~isWithin(PathChars(<<"sb2", "f">>), PathChars(<<"sb">>))
    /\ (FsCalled /\ fsOp.input.json = "ok"
          /\ NamePrefixSibling(sandboxDir, PathGiven(fsOp.op, fsOp.input))) =>
          /\ ~fsOp.accepted
          /\ fsOp.isError
          /\ fsOp.result = "path escapes sandbox"
          /\ fsOp.reached = {}
          /\ fs = fsOp.before

\* A read of ../sb2 from the sandbox /sb, where /sb2 exists, was turned
\* down.
C32_Witness ==
    /\ FsCalled
    /\ fsOp.op = "fs_read"
    /\ sandboxDir = <<"sb">>
    /\ fsOp.input.path.comps = <<"..", "sb2">>
    /\ NamePrefixSibling(sandboxDir, fsOp.input.path)
    /\ Exists(fsOp.before, <<"sb2">>)
    /\ fsOp.result = "path escapes sandbox"

\* The input that names "." where another names nothing.
DotInput == [json |-> "ok", path |-> [empty |-> FALSE, abs |-> FALSE, comps |-> <<".">>]]

\* C33: resolveSandboxedPath rejects the empty path on every filesystem;
\* fs_read and fs_write called with an empty or absent path hand back an
\* error-flagged result and leave every file as it was, while fs_list called
\* with an empty or absent path hands back exactly what listing "." hands
\* back, the listing of the sandbox root.
C33_EmptyPathRejectedOrListsRoot ==
    (FsCalled /\ fsOp.input.json = "ok" /\ fsOp.input.path.empty) =>
        /\ ~resolveSandboxedPath(fsOp.before, sandboxDir, fsOp.input.path).ok
        /\ fsOp.op \in {"fs_read", "fs_write"} =>
              /\ fsOp.isError
              /\ fsOp.err = NoErr
              /\ ~fsOp.accepted
              /\ fsOp.result = "path is empty"
              /\ fsOp.reached = {}
              /\ fs = fsOp.before
        /\ fsOp.op = "fs_list" =>
              /\ fsOp.result = fsList(fsOp.before, sandboxDir, DotInput).result
              /\ fsOp.isError = fsList(fsOp.before, sandboxDir, DotInput).isError
              /\ fsOp.err = fsList(fsOp.before, sandboxDir, DotInput).err
              /\ fsOp.reached = fsList(fsOp.before, sandboxDir, DotInput).reached
              /\ fsOp.accepted
              /\ fsOp.returned = sandboxDir
              /\ ~fsOp.isError => fsOp.reached = {sandboxDir}
              /\ fs = fsOp.before

\* A write with an empty path was turned down.
C33_Witness ==
    /\ FsCalled
    /\ fsOp.op = "fs_write"
    /\ fsOp.input.json = "ok"
    /\ fsOp.input.path.empty
    /\ fsOp.isError
    /\ fs = fsOp.before

\* The directory a successful fs_list listed, and its entries.
ListedDir == CHOOSE d \in fsOp.reached : TRUE

ListedNames == ReadDir(fsOp.before, ListedDir)

\* One entry's line: the name, "/" after the name of a directory, a newline.
EntryLine(f, dir, name) ==
    name \o (IF f[Append(dir, name)].kind = "dir" THEN "/" ELSE "") \o "\n"

RECURSIVE EntryLinesBetween(_, _, _, _, _)
EntryLinesBetween(f, dir, names, lo, hi) ==
    IF lo > hi THEN ""
    ELSE IF lo = hi THEN EntryLine(f, dir, names[lo])
    ELSE EntryLinesBetween(f, dir, names, lo, (lo + hi) \div 2)
           \o EntryLinesBetween(f, dir, names, (lo + hi) \div 2 + 1, hi)

EntryLines(f, dir, names) == EntryLinesBetween(f, dir, names, 1, Len(names))

\* C34: a successful fs_list never hands back the empty string: a directory
\* without entries gives exactly "(empty directory)", and a directory with
\* entries (no more than the listing shows at once) gives one line per entry,
\* with "/" after the names of directories and after no other name.
C34_ListNeverEmptyString ==
    (FsCalled /\ fsOp.op = "fs_list" /\ ~fsOp.isError) =>
        /\ fsOp.result # ""
        /\ fsOp.err = NoErr
        /\ Cardinality(fsOp.reached) = 1
        /\ ListedNames = <<>> <=> fsOp.result = "(empty directory)"
        /\ (ListedNames # <<>> /\ Len(ListedNames) <= maxListEntries) =>
              fsOp.result = EntryLines(fsOp.before, ListedDir, ListedNames)

\* The empty directory /sb/a was listed.
C34_Witness ==
    /\ FsCalled
    /\ fsOp.op = "fs_list"
    /\ ~fsOp.isError
    /\ ListedDir = <<"sb", "a">>
    /\ ListedNames = <<>>
    /\ fsOp.result = "(empty directory)"

\* The number of entries of the listed sandbox.
EntryCount == Cardinality(DOMAIN fsOp.before) - 1

Min(a, b) == IF a <= b THEN a ELSE b

\* The marker line for n entries.
MoreLine(n) == "... and " \o ToString(n - 200) \o " more entries\n"

\* C35: for a directory of n entries fs_list prints the lines of the first
\* min(n, 200) entries; when n > 200 exactly one marker line with the count
\* n - 200 follows them, and when n <= 200 nothing follows them.
C35_ListShowsAtMost200 ==
    (FsCalled /\ fsOp.op = "fs_list" /\ ~fsOp.isError /\ EntryCount > 0) =>
        fsOp.result =
            EntryLines(fsOp.before, sandboxDir,
                       SubSeq(EntryNames(EntryCount), 1, Min(EntryCount, 200)))
            \o (IF EntryCount > 200 THEN MoreLine(EntryCount) ELSE "")

\* A directory of 201 entries was listed: 200 lines and the marker for one
\* more entry.
C35_Witness ==
    /\ FsCalled
    /\ fsOp.op = "fs_list"
    /\ EntryCount = 201
    /\ fsOp.result =
          EntryLines(fsOp.before, sandboxDir,
                     SubSeq(EntryNames(201), 1, 200))
          \o "... and 1 more entries\n"

\* The call just made was a successful fs_write of at most 1 MiB.
WroteWithinLimit ==
    /\ fsOp.op = "fs_write"
    /\ ~fsOp.isError
    /\ ContentSize(fsOp.content) <= 1048576

\* C36: after fs_write succeeded for a path and a content of at most 1 MiB,
\* whether it made missing parent directories or replaced earlier content,
\* it reported the length of the content, an fs_read of the same path that
\* follows hands back exactly that content with the error flag clear, and an
\* fs_write of the same path and content that follows leaves every file as
\* it was.
C36_WriteThenReadRoundTrips ==
    [][WroteWithinLimit =>
          /\ fsOp.result = "wrote " \o ToString(ContentSize(fsOp.content))
                             \o " bytes to " \o PathString(fsOp.input.path)
          /\ (fsOp'.op = "fs_read" /\ fsOp'.input = fsOp.input) =>
                /\ ~fsOp'.isError
                /\ fsOp'.result = fsOp.content
          /\ (fsOp'.op = "fs_write" /\ fsOp'.input = fsOp.input
                /\ fsOp'.content = fsOp.content) =>
                fs' = fs]_vars

(***************************************************************************)
(* Properties of the system prompt                                         *)
(***************************************************************************)

\* The registered names that start with fs_.
FsPrefixed == {"fs_list", "fs_read", "fs_write"}

\* The lines the summary is to hold: the web search line when a server
\* declaration exists, then, name by name in sorted order, the Filesystem
\* line at the first fs_ name and a line of its own for every other name.
RECURSIVE SummaryLines(_, _)
SummaryLines(names, fsSeen) ==
    IF names = <<>> THEN <<>>
    ELSE IF Head(names) \in FsPrefixed
    THEN (IF fsSeen THEN <<>> ELSE <<FilesystemLine>>)
           \o SummaryLines(Tail(names), TRUE)
    ELSE <<"- " \o Head(names)>> \o SummaryLines(Tail(names), fsSeen)

ExpectedSummary(lt, st) ==
    IF DOMAIN lt = {} /\ st = 0 THEN ""
    ELSE "\n\nYou have access to the following tools:\n"
           \o JoinLines((IF st > 0 THEN <<WebSearchLine>> ELSE <<>>)
                        \o SummaryLines(LocalToolNames(lt), FALSE))

\* C31: a request carries a system prompt exactly when the configured
\* prompt is non-empty or the registry is non-empty; its text is the
\* configured prompt followed by the capability summary, which holds one
\* web search line when a server declaration exists, one Filesystem line
\* however many fs_ tools are registered, and one line for every other local
\* tool name, in sorted order.
C31_SystemPromptAndSummary ==
    \A r \in Runs :
        runs[r].pc = "model" =>
            /\ runs[r].system.has <=>
                  (cfg.SystemPrompt # "" \/ DOMAIN localTools # {}
                     \/ serverTools > 0)
            /\ runs[r].system.has =>
                  runs[r].system.text =
                      cfg.SystemPrompt \o ExpectedSummary(localTools, serverTools)
            /\ ~runs[r].system.has => runs[r].system.text = ""

\* A request of a bot with a configured prompt, a server declaration, two
\* filesystem tools and the tool zip.
C31_Witness ==
    /\ runs["r1"].pc = "model"
    /\ DOMAIN localTools = {"fs_read", "fs_write", "zip"}
    /\ serverTools = 1
    /\ runs["r1"].system.has
    /\ runs["r1"].system.text =
          "Be brief.\n\nYou have access to the following tools:\n"
          \o "- Web search: you can search the web for current information\n"
          \o "- Filesystem: you can read, write, and list files in a sandboxed directory\n"
          \o "- zip"

(***************************************************************************)
(* Properties of a bridged tool's Execute                                  *)
(***************************************************************************)

BridgedCalled == mcp.called # NoBridgeCall

\* The texts of the parts of a remote result, one per line.
RemoteText(content) ==
    JoinLines([k \in 1..Len(content) |-> content[k].text])

\* C37: a bridged tool's Execute ends in one of three ways. A payload that
\* is no valid JSON gives an error-flagged result and the session is not
\* called; a remote call that fails gives a process-level error, which the
\* loop turns into the generic error result; a remote call that completes
\* gives the remote content as text and the remote's error flag, set or
\* clear, unchanged, and the loop's tool result carries both.
C37_BridgedExecuteOutcomes ==
    BridgedCalled =>
        LET c == mcp.called
        IN  /\ c.payload = "malformed" =>
                  /\ ~c.out.contacted
                  /\ c.out.isError
                  /\ c.out.err = NoErr
            /\ ~c.out.contacted =>
                  /\ c.out.isError
                  /\ c.out.err = NoErr
                  /\ c.toolResult.is_error
                  /\ c.toolResult.content = c.out.result
            /\ (c.out.contacted /\ c.remote.failed) =>
                  /\ c.out.err # NoErr
                  /\ c.toolResult.is_error
                  /\ c.toolResult.content = "internal error executing tool"
            /\ (c.out.contacted /\ ~c.remote.failed) =>
                  /\ c.out.err = NoErr
                  /\ c.out.isError = c.remote.isError
                  /\ c.toolResult.is_error = c.remote.isError
                  /\ c.toolResult.content = c.out.result
                  /\ (\A k \in 1..Len(c.remote.content) :
                         c.remote.content[k].type = "text") =>
                        c.out.result = RemoteText(c.remote.content)

\* A remote call completed with two text parts and the remote's error flag
\* set.
C37_Witness ==
    /\ BridgedCalled
    /\ mcp.called.payload = "object"
    /\ mcp.called.out.contacted
    /\ ~mcp.called.remote.failed
    /\ mcp.called.remote.isError
    /\ mcp.called.out.isError
    /\ mcp.called.out.result = "one\ntwo"

(***************************************************************************)
(* Properties of the stored history                                        *)
(***************************************************************************)

\* No run is under way.
Quiescent == \A r \in Runs : runs[r].pc \in {"idle", "done"}

\* h starts with a user entry and no two neighbours have the same role.
Alternates(h) ==
    \/ h = <<>>
    \/ /\ h[1].role = "user"
       /\ \A k \in 1..(Len(h) - 1) : h[k].role # h[k + 1].role

\* C38: after any sequence of runs on one thread that do not overlap, runs
\* that ended with a model-call error or ran out of iterations included, the
\* stored history starts with a user entry and alternates between user and
\* assistant entries.
C38_HistoryAlternates ==
    Quiescent => Alternates(convs["t1"])

\* The invocation ids of the tool-use requests, or of the tool results, in
\* the blocks of an entry.
ToolUseIds(content) ==
    {content[k].id : k \in {j \in 1..Len(content) : content[j].type = "tool_use"}}

ToolResultIdsOf(content) ==
    {content[k].tool_use_id :
        k \in {j \in 1..Len(content) : content[j].type = "tool_result"}}

\* The entry after the k-th entry of h answers every tool-use request of the
\* k-th entry with one tool result.
AnsweredAt(h, k) ==
    /\ k < Len(h)
    /\ h[k + 1].role = "user"
    /\ ToolResultIdsOf(h[k + 1].content) = ToolUseIds(h[k].content)
    /\ Len(h[k + 1].content) = Cardinality(ToolUseIds(h[k].content))

\* C39: in every thread history, once the run that appended it has handled
\* the response, each assistant entry that holds tool-use requests is
\* directly followed by a user entry with one tool result for each of them,
\* matched by invocation id, also when some or all of the requested names
\* are not registered.
C39_EveryToolUseAnswered ==
    (\A r \in Runs : runs[r].pc \in {"idle", "loop", "done"}) =>
        \A t \in Threads :
            \A k \in 1..Len(convs[t]) :
                (convs[t][k].role = "assistant"
                   /\ ToolUseIds(convs[t][k].content) # {}) =>
                    AnsweredAt(convs[t], k)

(***************************************************************************)
(* Properties of the wired registry                                        *)
(***************************************************************************)

\* C40: once the filesystem tools are registered and the bridge connects,
\* the names fs_read, fs_write and fs_list stay with the sandboxed
\* filesystem tools, and a call of one of them runs the filesystem tool,
\* whatever the servers are called and whatever tools they list.
C40_FilesystemNamesKeepTheirTools ==
    (cfg.SandboxDir # "" /\ mcp.pc # "new") =>
        /\ \A n \in FilesystemToolNames :
              HasLocalTool(localTools, n) /\ localTools[n] = "ignoresCtx"
        /\ (mcp.called # NoBridgeCall
              /\ mcp.called.name \in FilesystemToolNames) =>
              mcp.called.tool = "ignoresCtx"
====
